---- MODULE Spec2Model ----
(***************************************************************************)
(* A model of the resource matching and ranking engine of server.js (the   *)
(* BYU Law Library AI search server): string normalisation, the whitelist  *)
(* validator, the allowlist shortlister, the local relevance scorers, the  *)
(* catalog index and enrichment, the result merger and the two /search     *)
(* request handlers.                                                       *)
(*                                                                         *)
(* Strings are sequences of characters; a character is a one-element TLA+  *)
(* string ("a", " ", "&"), and a non-ASCII character is written as a named *)
(* atom: "(tm)" is U+2122, "(c)" U+00A9, "(r)" U+00AE, "rsquo"/"lsquo" the *)
(* curly single quotes, "rdquo"/"ldquo" the curly double quotes, "ndash"   *)
(* and "mdash" the dashes.  The JavaScript value undefined is UNDEFINED.   *)
(***************************************************************************)
EXTENDS Bags, Integers, Sequences, FiniteSets, TLC

(***************************************************************************)
(* Characters and string primitives of JavaScript                          *)
(***************************************************************************)
UNDEFINED == <<"undefined">>

LowerLetters ==
  <<"a","b","c","d","e","f","g","h","i","j","k","l","m",
    "n","o","p","q","r","s","t","u","v","w","x","y","z">>

UpperLetters ==
  <<"A","B","C","D","E","F","G","H","I","J","K","L","M",
    "N","O","P","Q","R","S","T","U","V","W","X","Y","Z">>

Digits == {"0","1","2","3","4","5","6","7","8","9"}

LowerSet == {LowerLetters[i] : i \in 1..26}

UpperSet == {UpperLetters[i] : i \in 1..26}

\* [a-z0-9]
LowerAlnum == LowerSet \cup Digits

\* \w of a regular expression
WordChars == LowerSet \cup UpperSet \cup Digits \cup {"_"}

\* \s of a regular expression, and what String.prototype.trim removes
WhiteSpace == {" ", "\t", "\n"}

SetMin(S) == CHOOSE x \in S : \A y \in S : x <= y

SetMax(S) == CHOOSE x \in S : \A y \in S : x >= y

\* mutant: the case of the character is kept
toLowerCharKeepCase(c) == c

\* String.prototype.toLowerCase, one character
toLowerChar(c) ==
  IF c \in UpperSet
    THEN LowerLetters[CHOOSE i \in 1..26 : UpperLetters[i] = c]
    ELSE c

\* a sequence written as a function, as an explicit tuple (the same value)
strict(f) == f \o <<>>

\* String.prototype.toLowerCase
toLowerCase(s) == strict([i \in 1..Len(s) |-> toLowerChar(s[i])])

\* String.prototype.trim
trim(s) ==
  LET idx == {i \in 1..Len(s) : s[i] \notin WhiteSpace}
  IN  IF idx = {} THEN <<>> ELSE SubSeq(s, SetMin(idx), SetMax(idx))

\* String.prototype.includes
includes(long, short) ==
  \E i \in 0..(Len(long) - Len(short)) : SubSeq(long, i + 1, i + Len(short)) = short

\* Array.prototype.filter: the elements of s whose index is in keep, in order
PickSeq(s, keep) ==
  LET F[i \in 0..Len(s)] ==
        IF i = 0 THEN <<>>
        ELSE IF i \in keep THEN Append(F[i - 1], s[i]) ELSE F[i - 1]
  IN  F[Len(s)]

\* s.replace(/[class]+/g, " "): every maximal run of characters of the class becomes one
\* space; the class is Chars when inClass, and every character outside Chars otherwise
replaceRuns(s, Chars, inClass) ==
  LET bad(c) == (c \in Chars) = inClass
      keep == {i \in 1..Len(s) : ~bad(s[i]) \/ i = 1 \/ ~bad(s[i - 1])}
  IN  PickSeq(strict([i \in 1..Len(s) |-> IF bad(s[i]) THEN " " ELSE s[i]]), keep)

\* concatenation of a sequence of strings
Flatten(ss) ==
  LET F[i \in 0..Len(ss)] == IF i = 0 THEN <<>> ELSE F[i - 1] \o ss[i]
  IN  F[Len(ss)]

\* Array.prototype.join(" ")
joinSpace(ss) ==
  LET F[i \in 0..Len(ss)] ==
        IF i = 0 THEN <<>>
        ELSE IF i = 1 THEN ss[1] ELSE F[i - 1] \o <<" ">> \o ss[i]
  IN  F[Len(ss)]

\* new Set(s.split(" ").filter(Boolean)): the maximal runs of non-space characters
tokens(s) ==
  LET starts == {i \in 1..Len(s) : s[i] # " " /\ (i = 1 \/ s[i - 1] = " ")}
      stop(i) == SetMin({j \in i..Len(s) : j = Len(s) \/ s[j + 1] = " "})
  IN  {SubSeq(s, i, stop(i)) : i \in starts}

\* s.split(" ").length: empty pieces count
splitLength(s) == 1 + Cardinality({i \in 1..Len(s) : s[i] = " "})

(***************************************************************************)
(* normalize (server.js 711-723; the declaration at 139-151 is the same    *)
(* function and is shadowed by this one)                                   *)
(***************************************************************************)
normalize(s) ==
  LET quotes(c) == IF c \in {"rsquo", "lsquo"} THEN "'"
                   ELSE IF c \in {"ldquo", "rdquo"} THEN "\""
                   ELSE IF c \in {"ndash", "mdash"} THEN "-"
                   ELSE c
      symbols(c) == IF c = "&" THEN <<"a", "n", "d">>
                    ELSE IF c \in {"@", "(tm)", "(c)", "(r)"} THEN <<" ">>
                    ELSE <<c>>
      s0 == IF s = UNDEFINED THEN <<>> ELSE s
  IN  trim(replaceRuns(replaceRuns(
             Flatten(strict([i \in 1..Len(s0) |-> symbols(toLowerChar(quotes(s0[i])))])),
             LowerAlnum \cup {" "}, FALSE),
           WhiteSpace, TRUE))

(***************************************************************************)
(* Result items.  A JavaScript result object is a record with every field  *)
(* present: an absent url/description is the empty string and an absent    *)
(* type flag is FALSE (both are falsy wherever the code reads them).       *)
(***************************************************************************)
NoFlags ==
  [isLocalGuide |-> FALSE, isLibGuideAsset |-> FALSE,
   isExternalDatabase |-> FALSE, isLegalHelp |-> FALSE]

mkItem(name, score, reason, url, description, flags) ==
  [name |-> name, relevanceScore |-> score, matchReason |-> reason,
   url |-> url, description |-> description,
   isLocalGuide |-> flags.isLocalGuide, isLibGuideAsset |-> flags.isLibGuideAsset,
   isExternalDatabase |-> flags.isExternalDatabase, isLegalHelp |-> flags.isLegalHelp]

\* number of type flags an item carries
flagCount(r) ==
  (IF r.isLocalGuide THEN 1 ELSE 0) + (IF r.isLibGuideAsset THEN 1 ELSE 0)
  + (IF r.isExternalDatabase THEN 1 ELSE 0) + (IF r.isLegalHelp THEN 1 ELSE 0)

Range(s) == {s[i] : i \in 1..Len(s)}

\* the sequences over S of length at most n
SeqsUpTo(S, n) == UNION {[1..k -> S] : k \in 0..n}

\* Array.prototype.slice(0, n)
slice0(s, n) == SubSeq(s, 1, IF Len(s) < n THEN Len(s) ELSE n)

(***************************************************************************)
(* Result merger (server.js 1310-1325, repeated at 1472-1487)              *)
(***************************************************************************)
MIN_RELEVANCE_SCORE == 60

MAX_RESULTS == 8

\* the normalized names of a list of items
keysOf(items) == strict([i \in 1..Len(items) |-> normalize(items[i].name)])

\* mutant: a later duplicate with an equal score replaces the earlier one
bestMapTiesLast(result) ==
  LET keys == keysOf(result)
      \* the indices (into result) of the Map's values, in insertion order
      F[i \in 0..Len(result)] ==
        IF i = 0 THEN <<>>
        ELSE LET acc == F[i - 1]
                 pos == {j \in 1..Len(acc) : keys[acc[j]] = keys[i]}
             IN  IF pos = {} THEN Append(acc, i)
                 ELSE LET j == CHOOSE k \in pos : TRUE
                      IN  IF result[i].relevanceScore >= result[acc[j]].relevanceScore
                            THEN [acc EXCEPT ![j] = i] ELSE acc
      best == F[Len(result)]
  IN  strict([k \in 1..Len(best) |-> result[best[k]]])

\* the Map `best`, as the sequence of its values in insertion order:
\* for (item of result) { key = normalize(item.name); prev = best.get(key);
\*   if (!prev || item.relevanceScore > prev.relevanceScore) best.set(key, item) }
bestMap(result) ==
  LET keys == keysOf(result)
      \* the indices (into result) of the Map's values, in insertion order
      F[i \in 0..Len(result)] ==
        IF i = 0 THEN <<>>
        ELSE LET acc == F[i - 1]
                 pos == {j \in 1..Len(acc) : keys[acc[j]] = keys[i]}
             IN  IF pos = {} THEN Append(acc, i)
                 ELSE LET j == CHOOSE k \in pos : TRUE
                      IN  IF result[i].relevanceScore > result[acc[j]].relevanceScore
                            THEN [acc EXCEPT ![j] = i] ELSE acc
      best == F[Len(result)]
  IN  strict([k \in 1..Len(best) |-> result[best[k]]])

\* items.sort((a, b) => b.relevanceScore - a.relevanceScore): Array.prototype.sort is stable
sortByRelevanceUnsorted(items) == items

sortByRelevance(items) ==
  LET F[i \in 0..Len(items)] ==
        IF i = 0 THEN <<>>
        ELSE LET x == items[i]
                 acc == F[i - 1]
                 k == Cardinality({j \in 1..Len(acc) : acc[j].relevanceScore >= x.relevanceScore})
             IN  SubSeq(acc, 1, k) \o <<x>> \o SubSeq(acc, k + 1, Len(acc))
  IN  F[Len(items)]

\* mutant: the relevance floor is not applied
finalOutNoFloor(bestValues) == slice0(sortByRelevance(bestValues), MAX_RESULTS)

\* sortedResults = [...best.values()].sort(...);
\* finalOut = sortedResults.filter(item => item.relevanceScore >= MIN_RELEVANCE_SCORE).slice(0, MAX_RESULTS)
finalOut(bestValues) ==
  LET sortedResults == sortByRelevance(bestValues)
      keep == {i \in 1..Len(sortedResults) : sortedResults[i].relevanceScore >= MIN_RELEVANCE_SCORE}
  IN  slice0(PickSeq(sortedResults, keep), MAX_RESULTS)

(***************************************************************************)
(* String literals                                                         *)
(***************************************************************************)
\* the strings of the startup data and of the requests
Str ==
  [Westlaw |-> <<"W", "e", "s", "t", "l", "a", "w">>,
   WESTLAW |-> <<"W", "E", "S", "T", "L", "A", "W">>,
   WestlawEdge |-> <<"W", "e", "s", "t", "l", "a", "w", " ", "E", "d", "g", "e">>,
   WestlawEdgeTM |-> <<"W", "e", "s", "t", "l", "a", "w", " ", "E", "d", "g", "e", "(tm)">>,
   HeinOnline |-> <<"H", "e", "i", "n", "O", "n", "l", "i", "n", "e">>,
   LexisPlus |-> <<"L", "e", "x", "i", "s", "+">>,
   Lexis |-> <<"L", "e", "x", "i", "s">>,
   ABA |-> <<"A", "B", "A">>,
   TM |-> <<"(tm)">>,
   Dash |-> <<"-">>,
   West |-> <<"W", "e", "s", "t">>,
   WestlawLaw |-> <<"w", "e", "s", "t", "l", "a", "w", " ", "l", "a", "w">>,
   law |-> <<"l", "a", "w">>,
   FakeDB |-> <<"F", "a", "k", "e", "D", "B">>,
   Empty |-> <<>>]

(***************************************************************************)
(* State                                                                   *)
(***************************************************************************)
VARIABLES
  WHITELIST,    \* const WHITELIST = mergeWhitelists(WL_A, WL_B, WL_C)
  exactTokens,  \* const exactTokens = new Set()
  aliasTokens,  \* const aliasTokens = new Set()
  wlName,       \* validator: the name handed to isWhitelistedLoose
  wlAccepted,   \* validator: what isWhitelistedLoose returned
  wlDone,       \* validator: isWhitelistedLoose has been called
  slIn,         \* shortlister: the arguments [query, catalog, cap] of shortlistFromCatalog
  slOut,        \* shortlister: the names shortlistFromCatalog returned
  slDone,       \* shortlister: shortlistFromCatalog has been called
  mgIn,         \* merger: the three result groups [ai, guides, assets] handed to the merge step
  mgBest,       \* merger: the values of the Map `best` after the de-dupe loop
  mgOut,        \* merger: finalOut
  mgDone,       \* merger: the merge step has run
  CATALOG_A,    \* const CATALOG_A: the local guides
  CATALOG_B,    \* const CATALOG_B: the external databases
  CATALOG_C,    \* const CATALOG_C: the LibGuide assets
  CATALOG,      \* const CATALOG = indexCatalog([...CATALOG_B, ...CATALOG_C, ...CATALOG_A])
  GEMINI_API_KEY,  \* process.env.GEMINI_API_KEY is set
  LOCAL_API_KEY,   \* process.env.LOCAL_API_KEY, UNDEFINED when not set
  rateLimiter,  \* the Map rateLimiter: the set of its entries [ip, count, resetTime]
  now,          \* Date.now(), in milliseconds
  RESOLVED_MODEL,  \* let RESOLVED_MODEL, NULL until a model has been resolved
  pc,           \* where the request in hand is: "idle", an await of queryGemini, or "done"
  req,          \* the request in hand
  prompt,       \* the allowlist of the prompt sent to the recommender
  ai,           \* what queryGemini did for the request: the text it returned or the error it threw
  res,          \* the response sent for the request
  fnIn,         \* the argument drawn for a function checked on its own
  fnOut,        \* what the function returned for it
  fnDone,       \* the function has been called
  allowedAt,    \* history: the bag of the (ip, time) of the calls checkRateLimit allowed
  noCleanup     \* history: the Map rateLimiter as it is when the cleanup never runs

startupVars == <<WHITELIST, exactTokens, aliasTokens>>

wlVars == <<wlName, wlAccepted, wlDone>>

slVars == <<slIn, slOut, slDone>>

mgVars == <<mgIn, mgBest, mgOut, mgDone>>

catVars == <<CATALOG_A, CATALOG_B, CATALOG_C, CATALOG, GEMINI_API_KEY, LOCAL_API_KEY>>

srvVars == <<rateLimiter, now, RESOLVED_MODEL, pc, req, prompt, ai, res>>

fnVars == <<fnIn, fnOut, fnDone, allowedAt, noCleanup>>

vars == <<startupVars, wlVars, slVars, mgVars, catVars, srvVars, fnVars>>

\* the parts of the state a specification does not use
wlIdle == wlName = <<>> /\ wlAccepted = FALSE /\ wlDone = FALSE

slIdle == slIn = <<>> /\ slOut = <<>> /\ slDone = FALSE

mgIdle == mgIn = <<>> /\ mgBest = <<>> /\ mgOut = <<>> /\ mgDone = FALSE

fnIdle == fnIn = <<>> /\ fnOut = <<>> /\ fnDone = FALSE /\ allowedAt = <<>> /\ noCleanup = {}

catIdle ==
  /\ CATALOG_A = <<>> /\ CATALOG_B = <<>> /\ CATALOG_C = <<>>
  /\ CATALOG = [byName |-> <<>>, aliasToName |-> <<>>]
  /\ GEMINI_API_KEY = FALSE /\ LOCAL_API_KEY = UNDEFINED

\* no request in hand
NoRequest ==
  [path |-> <<>>, ip |-> <<>>, apiKey |-> UNDEFINED, query |-> UNDEFINED,
   skipWhitelist |-> UNDEFINED, debug |-> 0]

\* queryGemini has not returned or thrown
NoCall == [kind |-> "none", text |-> [shape |-> "prose", objects |-> <<>>], message |-> <<>>]

\* no response has been sent
NoResponse ==
  [status |-> 0, body |-> "none", results |-> <<>>, fallback |-> FALSE, error |-> <<>>]

srvIdle ==
  /\ rateLimiter = {} /\ now = 0 /\ RESOLVED_MODEL = <<"null">>
  /\ pc = "idle" /\ req = NoRequest /\ prompt = <<>> /\ ai = NoCall /\ res = NoResponse

(***************************************************************************)
(* Whitelist (server.js 725-763)                                           *)
(***************************************************************************)
\* [...new Set([...a, ...b])]: the distinct elements in order of first occurrence
setUnionSeq(a, b) ==
  LET ab == a \o b
  IN  PickSeq(ab, {i \in 1..Len(ab) : \A j \in 1..(i - 1) : ab[j] # ab[i]})

\* a name that `!item.name` skips
isFalsyName(name) == name = UNDEFINED \/ name = <<>>

\* mergeWhitelists(...lists): one entry per normalized name, in order of first occurrence
mergeWhitelists(lists) ==
  LET items == Flatten(lists)
      F[i \in 0..Len(items)] ==
        IF i = 0 THEN <<>>
        ELSE LET map == F[i - 1]
                 item == items[i]
             IN  IF isFalsyName(item.name) THEN map
                 ELSE LET pos == {j \in 1..Len(map) : normalize(map[j].name) = normalize(item.name)}
                      IN  IF pos = {}
                            THEN Append(map, [name |-> item.name, aliases |-> setUnionSeq(<<>>, item.aliases)])
                            ELSE LET j == CHOOSE k \in pos : TRUE
                                 IN  [map EXCEPT ![j] = [name |-> map[j].name,
                                        aliases |-> setUnionSeq(map[j].aliases, item.aliases)]]
  IN  F[Len(items)]

\* mutant: the names are added as written, not normalized
exactTokensRaw(whitelist) == {whitelist[i].name : i \in 1..Len(whitelist)}

\* for (const it of WHITELIST) exactTokens.add(normalize(it.name))
exactTokensOf(whitelist) == {normalize(whitelist[i].name) : i \in 1..Len(whitelist)}

\* for (const a of it.aliases || []) aliasTokens.add(normalize(a))
aliasTokensOf(whitelist) ==
  UNION {{normalize(whitelist[i].aliases[k]) : k \in 1..Len(whitelist[i].aliases)} :
           i \in 1..Len(whitelist)}

\* mutant: a contained candidate of 3 characters is enough
isWhitelistedLoose3(name) ==
  \E n \in {normalize(name)} :
    IF n = <<>> THEN FALSE
    ELSE IF n \in exactTokens \/ n \in aliasTokens THEN TRUE
    ELSE \E c \in exactTokens \cup aliasTokens :
           /\ c # <<>>
           /\ \E short \in {IF Len(c) <= Len(n) THEN c ELSE n} :
              \E long \in {IF Len(c) > Len(n) THEN c ELSE n} :
                Len(short) >= 3 /\ includes(long, short)

\* isWhitelistedLoose(name)
isWhitelistedLoose(name) ==
  \E n \in {normalize(name)} :
    IF n = <<>> THEN FALSE
    ELSE IF n \in exactTokens \/ n \in aliasTokens THEN TRUE
    ELSE \E c \in exactTokens \cup aliasTokens :
           /\ c # <<>>
           /\ \E short \in {IF Len(c) <= Len(n) THEN c ELSE n} :
              \E long \in {IF Len(c) > Len(n) THEN c ELSE n} :
                Len(short) >= 4 /\ includes(long, short)

(***************************************************************************)
(* The validator on its own: SpecWL draws the whitelist files, builds the  *)
(* lookup sets as the module does at load time, and validates names        *)
(***************************************************************************)
\* at most this many entries in a drawn whitelist file
MaxWhitelistFile == 2

WLEntry(name, aliases) == [name |-> name, aliases |-> aliases]

\* entries of whitelist files: two spellings of one name, a three-letter name, an entry
\* whose name and alias hold no letter or digit, an entry without a name
WLEntries ==
  {WLEntry(Str.Westlaw, <<Str.WestlawEdgeTM>>),
   WLEntry(Str.WESTLAW, <<Str.West>>),
   WLEntry(Str.ABA, <<>>),
   WLEntry(Str.LexisPlus, <<Str.Lexis, Str.Empty>>),
   WLEntry(Str.TM, <<Str.Dash>>),
   WLEntry(UNDEFINED, <<Str.HeinOnline>>)}

\* the names handed to the validator
WLNames ==
  {Str.Westlaw, Str.WESTLAW, Str.WestlawEdge, Str.WestlawEdgeTM, Str.West, Str.law, Str.ABA,
   Str.LexisPlus, Str.Lexis, Str.HeinOnline, Str.FakeDB, Str.TM, Str.Dash, Str.Empty}

WLInit ==
  /\ \E a \in SeqsUpTo(WLEntries, MaxWhitelistFile), b \in SeqsUpTo(WLEntries, 1) :
       WHITELIST = mergeWhitelists(<<a, b>>)
  /\ exactTokens = exactTokensOf(WHITELIST)
  /\ aliasTokens = aliasTokensOf(WHITELIST)
  /\ wlIdle /\ slIdle /\ mgIdle /\ catIdle /\ srvIdle /\ fnIdle

Validate(name) ==
  /\ wlName' = name
  /\ wlAccepted' = isWhitelistedLoose(name)
  /\ wlDone' = TRUE
  /\ UNCHANGED <<startupVars, fnVars, slVars, mgVars, catVars, srvVars>>

WLNext == \E name \in WLNames : Validate(name)

SpecWL == WLInit /\ [][WLNext]_vars

\* the normalized names and aliases of the merged whitelist
KnownNames ==
  UNION {{normalize(WHITELIST[i].name)} \cup
         {normalize(WHITELIST[i].aliases[k]) : k \in 1..Len(WHITELIST[i].aliases)} :
           i \in 1..Len(WHITELIST)}

\* the names and aliases of the merged whitelist as written
WrittenNames ==
  UNION {{WHITELIST[i].name} \cup Range(WHITELIST[i].aliases) : i \in 1..Len(WHITELIST)}

\* the shorter of c and n has at least 4 characters and is a substring of the longer
ShorterInLonger(c, n) ==
  \/ Len(c) >= 4 /\ Len(c) <= Len(n) /\ includes(n, c)
  \/ Len(n) >= 4 /\ Len(n) <= Len(c) /\ includes(c, n)

C8_WitnessReject ==
  /\ wlDone /\ ~wlAccepted
  /\ wlName = Str.law
  /\ \E c \in KnownNames : includes(c, normalize(wlName))

ALLOWLIST_SIZE == 60

\* `${item.name} ${(item.aliases || []).join(" ")}`
nameAndAliases(item) == item.name \o <<" ">> \o joinSpace(item.aliases)

\* mutant: the substring boost is given without looking at the haystack
lexicalMatchAlwaysBoost(q, item) ==
  LET hay == normalize(nameAndAliases(item))
  IN  Cardinality(tokens(q) \cap tokens(hay)) + 2

\* let match = 0; for (const t of qTokens) if (tokens.has(t)) match++;
\* if (hay.includes(q)) match += 2
lexicalMatch(q, item) ==
  LET hay == normalize(nameAndAliases(item))
  IN  Cardinality(tokens(q) \cap tokens(hay)) + (IF includes(hay, q) THEN 2 ELSE 0)

\* the collation order of String.prototype.localeCompare on the characters of the model:
\* white space, punctuation, symbols, digits, letters; case is a tie-break
CollationOrder ==
  <<" ", "\t", "\n", "_", "-", "ndash", "mdash", ",", ";", ":", "!", "?", ".", "'", "lsquo",
    "rsquo", "\"", "ldquo", "rdquo", "(", ")", "@", "*", "/", "&", "#", "%", "+", "(c)", "(r)",
    "(tm)", "0", "1", "2", "3", "4", "5", "6", "7", "8", "9">> \o LowerLetters

collationWeight(c) ==
  LET lc == toLowerChar(c)
  IN  IF \E i \in 1..Len(CollationOrder) : CollationOrder[i] = lc
        THEN CHOOSE i \in 1..Len(CollationOrder) : CollationOrder[i] = lc
        ELSE 0

\* a.localeCompare(b) <= 0
localeLessEq(a, b) ==
  \E wa \in {strict([i \in 1..Len(a) |-> collationWeight(a[i])])} :
  \E wb \in {strict([i \in 1..Len(b) |-> collationWeight(b[i])])} :
  \E m \in {IF Len(a) < Len(b) THEN Len(a) ELSE Len(b)} :
  \E diff \in {{i \in 1..m : wa[i] # wb[i]}} :
    IF diff # {} THEN wa[SetMin(diff)] < wb[SetMin(diff)]
    ELSE IF Len(a) # Len(b) THEN Len(a) < Len(b)
    ELSE \E cased \in {{i \in 1..m : a[i] # b[i]}} :
           cased = {} \/ a[SetMin(cased)] \in LowerSet

\* as sortAlphabetically, but the names are left in catalog order
sortAlphabeticallyUnsorted(names) == names

\* names.sort((a, b) => a.localeCompare(b)): stable, and undefined elements go last
sortAlphabetically(names) ==
  LET defined == PickSeq(names, {i \in 1..Len(names) : names[i] # UNDEFINED})
      undef == PickSeq(names, {i \in 1..Len(names) : names[i] = UNDEFINED})
      F[i \in 0..Len(defined)] ==
        IF i = 0 THEN <<>>
        ELSE LET acc == F[i - 1]
                 k == Cardinality({j \in 1..Len(acc) : localeLessEq(acc[j], defined[i])})
             IN  SubSeq(acc, 1, k) \o <<defined[i]>> \o SubSeq(acc, k + 1, Len(acc))
  IN  F[Len(defined)] \o undef

\* as bestScored, but an entry that ties with the kept one replaces it
bestScoredLastSeen(scored) ==
  LET keys == keysOf(scored)
      F[i \in 0..Len(scored)] ==
        IF i = 0 THEN <<>>
        ELSE LET acc == F[i - 1]
                 pos == {j \in 1..Len(acc) : keys[acc[j]] = keys[i]}
             IN  IF pos = {} THEN Append(acc, i)
                 ELSE LET j == CHOOSE k \in pos : TRUE
                      IN  IF scored[i].score >= scored[acc[j]].score
                            THEN [acc EXCEPT ![j] = i] ELSE acc
      best == F[Len(scored)]
  IN  strict([k \in 1..Len(best) |-> scored[best[k]]])

\* the Map `best` of the shortlisters, as the sequence of its values in insertion order
bestScored(scored) ==
  LET keys == keysOf(scored)
      F[i \in 0..Len(scored)] ==
        IF i = 0 THEN <<>>
        ELSE LET acc == F[i - 1]
                 pos == {j \in 1..Len(acc) : keys[acc[j]] = keys[i]}
             IN  IF pos = {} THEN Append(acc, i)
                 ELSE LET j == CHOOSE k \in pos : TRUE
                      IN  IF scored[i].score > scored[acc[j]].score
                            THEN [acc EXCEPT ![j] = i] ELSE acc
      best == F[Len(scored)]
  IN  strict([k \in 1..Len(best) |-> scored[best[k]]])

\* scored.sort((a, b) => b.score - a.score)
sortByScore(scored) ==
  LET F[i \in 0..Len(scored)] ==
        IF i = 0 THEN <<>>
        ELSE LET x == scored[i]
                 acc == F[i - 1]
                 k == Cardinality({j \in 1..Len(acc) : acc[j].score >= x.score})
             IN  SubSeq(acc, 1, k) \o <<x>> \o SubSeq(acc, k + 1, Len(acc))
  IN  F[Len(scored)]

\* the scoring loop: one {name, score} per named item with match > 0, in catalog order
scoredOf(q, catalog) ==
  LET match == strict([i \in 1..Len(catalog) |->
                 IF isFalsyName(catalog[i].name) THEN 0 ELSE lexicalMatch(q, catalog[i])])
      hits == PickSeq(strict([i \in 1..Len(catalog) |-> i]), {i \in 1..Len(catalog) : match[i] > 0})
  IN  strict([k \in 1..Len(hits) |-> [name |-> catalog[hits[k]].name, score |-> match[hits[k]]]])

\* mutant: without the alphabetical fallback
shortlistNoFallback(query, catalog, cap) ==
  LET scored == scoredOf(normalize(query), catalog)
      top == slice0(sortByScore(bestScored(scored)), cap)
  IN  strict([k \in 1..Len(top) |-> top[k].name])

\* shortlistFromCatalog(query, catalog, cap = ALLOWLIST_SIZE)
shortlistFromCatalog(query, catalog, cap) ==
  LET scored == scoredOf(normalize(query), catalog)
      top == slice0(sortByScore(bestScored(scored)), cap)
  IN  IF Len(scored) = 0
        THEN slice0(sortAlphabetically(strict([i \in 1..Len(catalog) |-> catalog[i].name])), cap)
        ELSE strict([k \in 1..Len(top) |-> top[k].name])

(***************************************************************************)
(* The shortlister on its own: SpecShort draws a query, a catalog subset   *)
(* and a cap, and calls shortlistFromCatalog                               *)
(***************************************************************************)
\* at most this many items in a drawn catalog subset
MaxCatalog == 3

\* the caps drawn are 1..MaxCap
MaxCap == 2

\* catalog items as the handler builds them: { name: item.name, aliases: item.aliases || [] }
SLItems ==
  {WLEntry(Str.Westlaw, <<Str.WestlawEdgeTM>>),
   WLEntry(Str.WESTLAW, <<Str.West, Str.law>>),
   WLEntry(Str.HeinOnline, <<>>),
   WLEntry(Str.ABA, <<Str.law>>),
   WLEntry(Str.Empty, <<>>),
   WLEntry(UNDEFINED, <<Str.Westlaw>>)}

SLQueries == {Str.Westlaw, Str.WestlawLaw, Str.law, Str.FakeDB, Str.TM, Str.Empty}

SLInit ==
  /\ slIn \in {[query |-> q, catalog |-> c, cap |-> k] :
                 q \in SLQueries, c \in SeqsUpTo(SLItems, MaxCatalog), k \in 1..MaxCap}
  /\ slOut = <<>>
  /\ slDone = FALSE
  /\ WHITELIST = <<>> /\ exactTokens = {} /\ aliasTokens = {}
  /\ wlIdle /\ mgIdle /\ catIdle /\ srvIdle /\ fnIdle

Shortlist ==
  /\ ~slDone
  /\ slOut' = shortlistFromCatalog(slIn.query, slIn.catalog, slIn.cap)
  /\ slDone' = TRUE
  /\ UNCHANGED <<slIn, startupVars, fnVars, wlVars, mgVars, catVars, srvVars>>

SLNext == Shortlist

SpecShort == SLInit /\ [][SLNext]_vars

MaxAISuggestions == 2

\* searchLocalGuides / searchLibGuideAssets return scored...slice(0, 5)
LOCAL_RESULT_CAP == 5

sAI == <<"a", "i">>

sGuide == <<"g">>

sAsset == <<"l">>

GuideFlags == [NoFlags EXCEPT !.isLocalGuide = TRUE]

AssetFlags == [NoFlags EXCEPT !.isLibGuideAsset = TRUE]

\* names of the merger's inputs: "B"/"b" and "h"/"H" are the same normalized name
MergeAINames == {<<"B">>, <<"x">>, <<"X">>}

MergeGuideNames == <<<<"a">>, <<"b">>, <<"c">>, <<"d">>, <<"e">>>>

MergeAssetNames == <<<<"A", "(tm)">>, <<"h">>, <<"i">>, <<"j">>, <<"k">>>>

MergeAIScores == {59, 98}

MergeGuideScores == {63, 98}

MergeAssetScores == {59, 90}

\* a local scorer returns its entries in non-increasing relevance order
SortedSeqsUpTo(S, n) ==
  {s \in SeqsUpTo(S, n) : \A i \in 1..(Len(s) - 1) : s[i] >= s[i + 1]}

MergeInputs ==
  {[ai |-> strict([i \in 1..Len(a) |-> mkItem(a[i][1], a[i][2], sAI, <<>>, <<>>, NoFlags)]),
    guides |-> strict([i \in 1..Len(g) |-> mkItem(MergeGuideNames[i], g[i], sGuide, <<>>, <<>>, GuideFlags)]),
    assets |-> strict([i \in 1..Len(c) |-> mkItem(MergeAssetNames[i], c[i], sAsset, <<>>, <<>>, AssetFlags)])] :
      a \in SeqsUpTo(MergeAINames \X MergeAIScores, MaxAISuggestions),
      g \in SortedSeqsUpTo(MergeGuideScores, LOCAL_RESULT_CAP),
      c \in SortedSeqsUpTo(MergeAssetScores, LOCAL_RESULT_CAP)}

MergeInit ==
  /\ mgIn \in MergeInputs
  /\ mgBest = <<>>
  /\ mgOut = <<>>
  /\ mgDone = FALSE
  /\ WHITELIST = <<>> /\ exactTokens = {} /\ aliasTokens = {}
  /\ wlIdle /\ slIdle /\ catIdle /\ srvIdle /\ fnIdle

\* let result = [...aiResults, ...localGuides, ...libGuideAssets]; de-dupe + sort + cap
MergeStep ==
  /\ ~mgDone
  /\ \E best \in {bestMap(mgIn.ai \o mgIn.guides \o mgIn.assets)} :
       /\ mgBest' = best
       /\ mgOut' = finalOut(best)
  /\ mgDone' = TRUE
  /\ UNCHANGED <<mgIn, startupVars, fnVars, wlVars, slVars, catVars, srvVars>>

MergeNext == MergeStep

SpecMerge == MergeInit /\ [][MergeNext]_vars

mgResult == mgIn.ai \o mgIn.guides \o mgIn.assets

\* input entry i loses a de-dupe comparison: another input entry of the same normalized
\* name has a higher score, or the same score and comes earlier
LosesDedup(result, keys, i) ==
  \E j \in 1..Len(result) :
    /\ j # i
    /\ keys[j] = keys[i]
    /\ \/ result[j].relevanceScore > result[i].relevanceScore
       \/ result[j].relevanceScore = result[i].relevanceScore /\ j < i

\* C4: the merged list has pairwise distinct normalized names, non-increasing scores, only
\* scores >= 60 and at most 8 entries, all taken from the input; an input entry with
\* score >= 60 is missing only if it lost a de-dupe comparison or 8 entries with scores
\* not lower than its own were kept.
C4_MergerShape ==
  mgDone =>
    \A result \in {mgResult} : \A keys \in {keysOf(result)} :
    \A outKeys \in {keysOf(mgOut)} : \A outSet \in {Range(mgOut)} :
        /\ \A i, j \in 1..Len(mgOut) : i # j => outKeys[i] # outKeys[j]
        /\ \A i \in 1..(Len(mgOut) - 1) : mgOut[i].relevanceScore >= mgOut[i + 1].relevanceScore
        /\ \A i \in 1..Len(mgOut) : mgOut[i].relevanceScore >= 60
        /\ Len(mgOut) <= 8
        /\ outSet \subseteq Range(result)
        /\ \A i \in 1..Len(result) :
             (result[i].relevanceScore >= 60 /\ result[i] \notin outSet) =>
               \/ LosesDedup(result, keys, i)
               \/ Cardinality({k \in 1..Len(mgOut) :
                     mgOut[k].relevanceScore >= result[i].relevanceScore}) >= 8

\* C4 witness: a merge that dropped an entry below the floor and cut an entry with
\* score >= 60 that lost no de-dupe comparison, because 8 entries were already kept
C4_Witness ==
  /\ mgDone
  /\ Len(mgOut) = 8
  /\ \E result \in {mgResult} : \E keys \in {keysOf(result)} :
         /\ \E i \in 1..Len(result) : result[i].relevanceScore < 60
         /\ \E i \in 1..Len(result) :
              /\ result[i].relevanceScore >= 60
              /\ result[i] \notin Range(mgOut)
              /\ ~LosesDedup(result, keys, i)

\* the first entry with the highest score among the duplicates of entry i
Winner(result, keys, i) ==
  CHOOSE w \in 1..Len(result) :
    /\ keys[w] = keys[i]
    /\ \A j \in 1..Len(result) :
         keys[j] = keys[i] =>
           \/ result[w].relevanceScore > result[j].relevanceScore
           \/ result[w].relevanceScore = result[j].relevanceScore /\ w <= j

\* C5: of several entries with the same normalized name the de-dupe keeps exactly one, the
\* one with the highest score and on equal scores the one seen first in group order (AI,
\* guides, assets); the final list holds no other entry of that name.
C5_DedupKeepsBest ==
  mgDone =>
    \A result \in {mgResult} : \A keys \in {keysOf(result)} :
    \A bestKeys \in {keysOf(mgBest)} : \A outKeys \in {keysOf(mgOut)} :
        \A i \in 1..Len(result) : \A w \in {Winner(result, keys, i)} :
          /\ Cardinality({k \in 1..Len(mgBest) : bestKeys[k] = keys[i]}) = 1
          /\ \A k \in 1..Len(mgBest) :
                bestKeys[k] = keys[i] => mgBest[k] = result[w]
          /\ \A k \in 1..Len(mgOut) :
                outKeys[k] = keys[i] => mgOut[k] = result[w]

\* C5 witness: duplicates with equal scores arrive from two groups and the earlier one is
\* kept, and two duplicates with different scores arrive lower score first
C5_Witness ==
  /\ mgDone
  /\ \E result \in {mgResult} : \E keys \in {keysOf(result)} :
         /\ \E i, j \in 1..Len(result) :
              /\ i < j
              /\ keys[i] = keys[j]
              /\ result[i].relevanceScore = result[j].relevanceScore
              /\ result[i] # result[j]
              /\ result[i] \in Range(mgOut)
         /\ \E i, j \in 1..Len(result) :
              /\ i < j
              /\ keys[i] = keys[j]
              /\ result[i].relevanceScore < result[j].relevanceScore
              /\ result[j] \in Range(mgOut)

(***************************************************************************)
(* Catalog index and enrichment (server.js 565-701)                        *)
(***************************************************************************)
\* the JavaScript value null
NULL == <<"null">>

\* an item of a catalog file; an absent field is the empty string, the empty list or FALSE
catItem(name, url, description, aliases, subjects, flag) ==
  [name |-> name, url |-> url, description |-> description,
   aliases |-> aliases, subjects |-> subjects,
   isLocalGuide |-> flag = "isLocalGuide", isLibGuideAsset |-> flag = "isLibGuideAsset",
   isExternalDatabase |-> flag = "isExternalDatabase"]

\* what lookupCatalog(name) || {} is when nothing is found: an entry with no field
NoEntry ==
  [name |-> <<>>, url |-> <<>>, description |-> <<>>, aliases |-> <<>>,
   isLocalGuide |-> FALSE, isLibGuideAsset |-> FALSE, isExternalDatabase |-> FALSE]

\* Map.prototype.set on a Map written as the sequence of its entries in insertion order
mapSet(map, key, val) ==
  LET pos == {j \in 1..Len(map) : map[j].key = key}
  IN  IF pos = {} THEN Append(map, [key |-> key, val |-> val])
      ELSE [map EXCEPT ![CHOOSE j \in pos : TRUE] = [key |-> key, val |-> val]]

\* Map.prototype.has
mapHas(map, key) == \E j \in 1..Len(map) : map[j].key = key

\* Map.prototype.get of a key the Map has
mapGet(map, key) == map[CHOOSE j \in 1..Len(map) : map[j].key = key].val

\* mutant: the flags of the item are added to those of the entry, none is deleted
typeFlagsKeepAll(existing, it) ==
  [isLocalGuide |-> existing.isLocalGuide \/ it.isLocalGuide,
   isLibGuideAsset |-> existing.isLibGuideAsset \/ it.isLibGuideAsset,
   isExternalDatabase |-> existing.isExternalDatabase \/ it.isExternalDatabase]

\* the if / else if chain of indexCatalog over the type flags: the flags of the entry
\* `existing` after the item `it` has been merged into it
typeFlags(existing, it) ==
  LET asset == ~it.isLocalGuide /\ it.isLibGuideAsset /\ ~existing.isLocalGuide
      external == /\ ~it.isLocalGuide /\ ~asset /\ it.isExternalDatabase
                  /\ ~existing.isLocalGuide /\ ~existing.isLibGuideAsset
  IN  [isLocalGuide |-> it.isLocalGuide \/ existing.isLocalGuide,
       isLibGuideAsset |-> IF it.isLocalGuide THEN FALSE
                           ELSE IF asset THEN TRUE ELSE existing.isLibGuideAsset,
       isExternalDatabase |-> IF it.isLocalGuide \/ asset THEN FALSE
                              ELSE IF external THEN TRUE ELSE existing.isExternalDatabase]

\* indexCatalog(items)
indexCatalog(items) ==
  LET F[i \in 0..Len(items)] ==
        IF i = 0 THEN [byName |-> <<>>, aliasToName |-> <<>>]
        ELSE LET idx == F[i - 1]
                 it == items[i]
             IN  IF isFalsyName(it.name) THEN idx
                 ELSE
                   LET key == normalize(it.name)
                       existing ==
                         IF mapHas(idx.byName, key) THEN mapGet(idx.byName, key)
                         ELSE [NoEntry EXCEPT !.name = it.name]
                       flags == typeFlags(existing, it)
                       merged ==
                         [name |-> existing.name,
                          url |-> IF trim(it.url) # <<>> THEN trim(it.url) ELSE existing.url,
                          description |-> IF trim(it.description) # <<>>
                                            THEN trim(it.description) ELSE existing.description,
                          aliases |-> setUnionSeq(existing.aliases, it.aliases),
                          isLocalGuide |-> flags.isLocalGuide,
                          isLibGuideAsset |-> flags.isLibGuideAsset,
                          isExternalDatabase |-> flags.isExternalDatabase]
                       G[k \in 0..Len(it.aliases)] ==
                         IF k = 0 THEN idx.aliasToName
                         ELSE IF trim(it.aliases[k]) # <<>>
                                THEN mapSet(G[k - 1], normalize(it.aliases[k]), key)
                                ELSE G[k - 1]
                   IN  [byName |-> mapSet(idx.byName, key, merged),
                        aliasToName |-> G[Len(it.aliases)]]
  IN  F[Len(items)]

\* as lookupCatalog, but the alias map is consulted before the names
lookupCatalogAliasFirst(name) ==
  IF isFalsyName(name) THEN NoEntry
  ELSE
    LET n == normalize(name)
        byName == CATALOG.byName
        k == IF mapHas(CATALOG.aliasToName, n) THEN mapGet(CATALOG.aliasToName, n)
             ELSE IF mapHas(byName, n) THEN n
             ELSE <<>>
    IN  IF k # <<>> /\ mapHas(byName, k) THEN mapGet(byName, k)
        ELSE
          LET words2 == tokens(n)
              fuzzy(j) ==
                LET key == byName[j].key
                IN  /\ key # <<>>
                    /\ \/ /\ Len(key) >= 4 /\ Len(n) >= 4
                          /\ (includes(n, key) \/ includes(key, n))
                       \/ \E w \in tokens(key) \cap words2 : Len(w) >= 4
              hits == {j \in 1..Len(byName) : fuzzy(j)}
          IN  IF hits = {} THEN NoEntry ELSE byName[SetMin(hits)].val

\* lookupCatalog(name) || {}: the catalog entry, or NoEntry
lookupCatalog(name) ==
  IF isFalsyName(name) THEN NoEntry
  ELSE
    LET n == normalize(name)
        byName == CATALOG.byName
        k == IF mapHas(byName, n) THEN n
             ELSE IF mapHas(CATALOG.aliasToName, n) THEN mapGet(CATALOG.aliasToName, n)
             ELSE <<>>
    IN  IF k # <<>> /\ mapHas(byName, k) THEN mapGet(byName, k)
        ELSE
          LET words2 == tokens(n)
              fuzzy(j) ==
                LET key == byName[j].key
                IN  /\ key # <<>>
                    /\ \/ /\ Len(key) >= 4 /\ Len(n) >= 4
                          /\ (includes(n, key) \/ includes(key, n))
                       \/ \E w \in tokens(key) \cap words2 : Len(w) >= 4
              hits == {j \in 1..Len(byName) : fuzzy(j)}
          IN  IF hits = {} THEN NoEntry ELSE byName[SetMin(hits)].val

\* /^https?:\/\//i.test(url)
hasScheme(url) ==
  LET u == toLowerCase(url)
  IN  \/ Len(u) >= 7 /\ SubSeq(u, 1, 7) = <<"h", "t", "t", "p", ":", "/", "/">>
      \/ Len(u) >= 8 /\ SubSeq(u, 1, 8) = <<"h", "t", "t", "p", "s", ":", "/", "/">>

\* mutant: the catalog's asset flag is added whatever flags the result carries
enrichOneAddsAsset(r, info) ==
  [r EXCEPT !.isLibGuideAsset = r.isLibGuideAsset \/ info.isLibGuideAsset,
            !.isExternalDatabase = r.isExternalDatabase \/ ~isFalsyName(info.name)]

\* the callback of items.map in enrichResults, with info = lookupCatalog(r.name) || {}
enrichOne(r, info) ==
  LET rawDesc == IF info.description # <<>> THEN info.description ELSE r.matchReason
      description == IF Len(rawDesc) > 400 THEN SubSeq(rawDesc, 1, 380) \o <<"hellip">> ELSE rawDesc
      url == IF info.url # <<>> /\ ~hasScheme(info.url) THEN <<"h", "t", "t", "p", "s", ":", "/",
            "/">> \o info.url
             ELSE info.url
      asset == \/ r.isLibGuideAsset
               \/ ~r.isLocalGuide /\ ~r.isLibGuideAsset /\ info.isLibGuideAsset
      external == ~r.isLocalGuide /\ ~r.isLegalHelp /\ ~asset /\ ~isFalsyName(info.name)
  IN  [r EXCEPT !.isLibGuideAsset = asset,
                !.isExternalDatabase = r.isExternalDatabase \/ external,
                !.url = IF url # <<>> THEN url ELSE r.url,
                !.description = IF description # <<>> THEN description ELSE r.description]

\* enrichResults(items)
enrichResults(items) ==
  strict([i \in 1..Len(items) |-> enrichOne(items[i], lookupCatalog(items[i].name))])

(***************************************************************************)
(* Local relevance scorers (server.js 276-384)                             *)
(***************************************************************************)
\* s, lower-cased, has w at position p
startsAt(s, p, w) == p >= 1 /\ p + Len(w) - 1 <= Len(s) /\ SubSeq(s, p, p + Len(w) - 1) = w

\* position p of s holds a \w character
isWordAt(s, p) == p >= 1 /\ p <= Len(s) /\ s[p] \in WordChars

\* /\bw\b/i.test(s), for a w that begins and ends with a \w character
hasWord(s, w) ==
  LET l == toLowerCase(s)
  IN  \E p \in 1..Len(l) :
        startsAt(l, p, w) /\ ~isWordAt(l, p - 1) /\ ~isWordAt(l, p + Len(w))

\* /\b(afghanistan|bosnia|ghana|[a-z]{2,}\s+(water|law))/i.test(name)
isCountrySpecific(name) ==
  LET l == toLowerCase(name)
      n == Len(l)
  IN  \E p \in 1..n :
        /\ ~isWordAt(l, p - 1)
        /\ \/ startsAt(l, p, <<"a", "f", "g", "h", "a", "n", "i", "s", "t", "a", "n">>)
           \/ startsAt(l, p, <<"b", "o", "s", "n", "i", "a">>)
           \/ startsAt(l, p, <<"g", "h", "a", "n", "a">>)
           \/ \E q \in (p + 1)..n :
                /\ \A k \in p..q : l[k] \in LowerSet
                /\ \E r \in (q + 1)..n :
                     /\ \A k \in (q + 1)..r : l[k] \in WhiteSpace
                     /\ (startsAt(l, r + 1, <<"w", "a", "t", "e", "r">>) \/ startsAt(l, r + 1, <<"l", "a",
                           "w">>))

\* the raw score of one entry: extras are the aliases (guides) or the subjects (assets),
\* boost is the general-topic boost
localScore(q, name, description, extras, boost) ==
  LET haystack == normalize(name \o <<" ">> \o description \o <<" ">> \o joinSpace(extras))
      toks == tokens(haystack)
      nn == normalize(name)
      isGeneralTopic == ~isCountrySpecific(name) /\ splitLength(toLowerCase(name)) <= 3
      related(x) == includes(x, q) \/ includes(q, x)
  IN  (IF related(nn) THEN 10 + (IF isGeneralTopic THEN boost ELSE 0) ELSE 0)
      + 2 * Cardinality({t \in tokens(q) : Len(t) >= 3 /\ t \in toks})
      + 5 * Cardinality({k \in 1..Len(extras) : related(normalize(extras[k]))})


\* searchLocalGuides(query)
searchLocalGuides(query) ==
  LET q == normalize(query)
      score == strict([i \in 1..Len(CATALOG_A) |->
                 IF isFalsyName(CATALOG_A[i].name) THEN 0
                 ELSE localScore(q, CATALOG_A[i].name, CATALOG_A[i].description,
                                 CATALOG_A[i].aliases, 20)])
      scored == strict([i \in 1..Len(CATALOG_A) |->
                  mkItem(CATALOG_A[i].name, SetMin({98, 60 + score[i] * 3}),
                         <<"B", "Y", "U", " ", "L", "a", "w", " ", "L", "i", "b", "r", "a", "r", "y", " ",
                               "s", "u", "b", "j", "e", "c", "t", " ", "g", "u", "i", "d", "e", " ", "o",
                                     "n", " ", "t", "h", "i", "s", " ", "t", "o", "p", "i", "c">>,
                         CATALOG_A[i].url,
                         IF CATALOG_A[i].description # <<>> THEN CATALOG_A[i].description
                         ELSE <<"R", "e", "s", "e", "a", "r", "c", "h", " ", "g", "u", "i", "d", "e", " ",
                               "f", "o", "r", " ">> \o CATALOG_A[i].name,
                         GuideFlags)])
  IN  slice0(sortByRelevance(PickSeq(scored, {i \in 1..Len(CATALOG_A) : score[i] > 0})),
             LOCAL_RESULT_CAP)

\* searchLibGuideAssets(query)
searchLibGuideAssets(query) ==
  LET q == normalize(query)
      score == strict([i \in 1..Len(CATALOG_C) |->
                 IF isFalsyName(CATALOG_C[i].name) THEN 0
                 ELSE localScore(q, CATALOG_C[i].name, CATALOG_C[i].description,
                                 CATALOG_C[i].subjects, 15)])
      scored == strict([i \in 1..Len(CATALOG_C) |->
                  mkItem(CATALOG_C[i].name, SetMin({90, 50 + score[i] * 3}),
                         <<"L", "i", "b", "G", "u", "i", "d", "e", " ", "a", "s", "s", "e", "t", " ", "r",
                               "e", "s", "o", "u", "r", "c", "e">>,
                         CATALOG_C[i].url,
                         IF CATALOG_C[i].description # <<>> THEN CATALOG_C[i].description
                         ELSE CATALOG_C[i].name,
                         AssetFlags)])
  IN  slice0(sortByRelevance(PickSeq(scored, {i \in 1..Len(CATALOG_C) : score[i] > 0})),
             LOCAL_RESULT_CAP)

(***************************************************************************)
(* Guide filter (server.js 767-831)                                        *)
(***************************************************************************)
KNOWN_DATABASES ==
  {normalize(x) : x \in
    {<<"H", "e", "i", "n", "O", "n", "l", "i", "n", "e">>, <<"W", "e", "s", "t", "l", "a", "w">>, <<"L",
          "e", "x", "i", "s">>, <<"L", "e", "x", "i", "s", "N", "e", "x", "i", "s">>, <<"B", "l", "o", "o",
                "m", "b", "e", "r", "g", " ", "L", "a", "w">>, <<"P", "r", "o", "Q", "u", "e", "s", "t">>,
     <<"J", "S", "T", "O", "R">>, <<"L", "e", "g", "a", "l", "T", "r", "a", "c">>, <<"I", "n", "d", "e",
           "x", " ", "t", "o", " ", "L", "e", "g", "a", "l", " ", "P", "e", "r", "i", "o", "d", "i", "c",
                 "a", "l", "s">>, <<"O", "x", "f", "o", "r", "d", " ", "C", "o", "n", "s", "t", "i", "t",
                       "u", "t", "i", "o", "n", "a", "l", " ", "L", "a", "w">>,
     <<"M", "a", "x", " ", "P", "l", "a", "n", "c", "k", " ", "E", "n", "c", "y", "c", "l", "o", "p", "e",
           "d", "i", "a", " ", "o", "f", " ", "C", "o", "m", "p", "a", "r", "a", "t", "i", "v", "e", " ",
                 "C", "o", "n", "s", "t", "i", "t", "u", "t", "i", "o", "n", "a", "l", " ", "L", "a",
                       "w">>, <<"K", "l", "u", "w", "e", "r", " ", "A", "r", "b", "i", "t", "r", "a", "t",
                             "i", "o", "n">>,
     <<"W", "o", "l", "t", "e", "r", "s", " ", "K", "l", "u", "w", "e", "r">>, <<"V", "i", "t", "a", "l",
           "L", "a", "w">>, <<"v", "L", "e", "x">>, <<"M", "a", "k", "i", "n", "g", " ", "o", "f", " ",
                 "M", "o", "d", "e", "r", "n", " ", "L", "a", "w">>, <<"F", "o", "r", "e", "i", "g", "n",
                       " ", "L", "a", "w", " ", "G", "u", "i", "d", "e">>,
     <<"L", "L", "M", "C", " ", "D", "i", "g", "i", "t", "a", "l">>, <<"D", "a", "l", "l", "o", "z">>,
           <<"B", "e", "c", "k", " ", "O", "n", "l", "i", "n", "e">>, <<"S", "S", "R", "N">>, <<"W", "o",
                 "r", "l", "d", "T", "r", "a", "d", "e", "L", "a", "w", ".", "n", "e", "t">>,
     <<"I", "n", "v", "e", "s", "t", "o", "r", "-", "S", "t", "a", "t", "e", " ", "L", "a", "w", "G", "u",
           "i", "d", "e">>, <<"O", "x", "f", "o", "r", "d", " ", "P", "u", "b", "l", "i", "c", " ", "I",
                 "n", "t", "e", "r", "n", "a", "t", "i", "o", "n", "a", "l", " ", "L", "a", "w">>, <<"O",
                       "x", "f", "o", "r", "d", " ", "L", "a", "w">>,
     <<"O", "x", "f", "o", "r", "d", " ", "H", "a", "n", "d", "b", "o", "o", "k", "s", " ", "O", "n", "l",
           "i", "n", "e">>, <<"C", "a", "m", "b", "r", "i", "d", "g", "e", " ", "C", "o", "r", "e">>,
                 <<"E", "l", "g", "a", "r", "o", "n", "l", "i", "n", "e">>, <<"B", "r", "i", "l", "l">>,
     <<"L", "a", "w", " ", "J", "o", "u", "r", "n", "a", "l", " ", "L", "i", "b", "r", "a", "r", "y">>,
           <<"U", ".", "S", ".", " ", "C", "o", "n", "g", "r", "e", "s", "s", "i", "o", "n", "a", "l", " ",
                 "D", "o", "c", "u", "m", "e", "n", "t", "s">>, <<"N", "e", "x", "i", "s", " ", "U", "n",
                       "i">>,
     <<"U", ".", "S", ".", " ", "S", "u", "p", "r", "e", "m", "e", " ", "C", "o", "u", "r", "t", " ", "R",
           "e", "c", "o", "r", "d", "s", " ", "a", "n", "d", " ", "B", "r", "i", "e", "f", "s">>, <<"W",
                 "e", "s", "t", "l", "a", "w", " ", "E", "d", "g", "e">>, <<"L", "e", "x", "i", "s", "+">>}}

VENDOR_TOKENS ==
  {normalize(x) : x \in
    {<<"h", "e", "i", "n">>, <<"w", "e", "s", "t", "l", "a", "w">>, <<"l", "e", "x", "i", "s">>, <<"l",
          "e", "x", "i", "s", "n", "e", "x", "i", "s">>, <<"b", "l", "o", "o", "m", "b", "e", "r", "g">>,
                <<"p", "r", "o", "q", "u", "e", "s", "t">>, <<"j", "s", "t", "o", "r">>,
     <<"l", "e", "g", "a", "l", "t", "r", "a", "c">>, <<"k", "l", "u", "w", "e", "r">>, <<"v", "i", "t",
           "a", "l", "L", "a", "w">>, <<"w", "o", "l", "t", "e", "r", "s">>, <<"v", "l", "e", "x">>, <<"b",
                 "r", "i", "l", "l">>, <<"e", "l", "g", "a", "r">>, <<"o", "x", "f", "o", "r", "d">>,
     <<"c", "a", "m", "b", "r", "i", "d", "g", "e">>, <<"b", "e", "c", "k">>, <<"d", "a", "l", "l", "o",
           "z">>, <<"l", "l", "m", "c">>, <<"s", "s", "r", "n">>, <<"m", "a", "x", " ", "p", "l", "a", "n",
                 "c", "k">>, <<"i", "e", "l">>,
     <<"e", "n", "c", "y", "c", "l", "o", "p", "e", "d", "i", "a">>, <<"e", "n", "c", "y", "c", "l", "o",
           "p", "a", "e", "d", "i", "a">>, <<"h", "a", "n", "d", "b", "o", "o", "k">>, <<"i", "n", "d",
                 "e", "x", " ", "t", "o", " ", "l", "e", "g", "a", "l", " ", "p", "e", "r", "i", "o", "d",
                       "i", "c", "a", "l", "s">>,
     <<"m", "a", "k", "i", "n", "g", " ", "o", "f", " ", "m", "o", "d", "e", "r", "n", " ", "l", "a", "w">>}}

\* VENDOR_TOKENS.some(t => n.includes(t))
hasVendorToken(n) == \E t \in VENDOR_TOKENS : includes(n, t)

\* looksLikePlatform(name)
looksLikePlatform(name) ==
  LET n == normalize(name)
  IN  \/ n \in KNOWN_DATABASES
      \/ hasVendorToken(n)
      \/ \E w \in {<<"e", "n", "c", "y", "c", "l", "o", "p", "e", "d", "i", "a">>, <<"e", "n", "c", "y",
            "c", "l", "o", "p", "a", "e", "d", "i", "a">>, <<"h", "a", "n", "d", "b", "o", "o", "k">>,
                  <<"d", "a", "t", "a", "b", "a", "s", "e">>, <<"p", "l", "a", "t", "f", "o", "r", "m">>,
                   <<"o", "n", "l", "i", "n", "e">>} : hasWord(name, w)

\* some pattern of GUIDE_PATTERNS matches the name
GUIDE_PATTERNS(name) ==
  LET n == normalize(name)
      endsWithLaw == /\ Len(n) >= 3
                     /\ SubSeq(n, Len(n) - 2, Len(n)) = <<"l", "a", "w">>
                     /\ ~isWordAt(n, Len(n) - 3)
  IN  \/ \E w \in {<<"s", "u", "b", "j", "e", "c", "t", " ", "g", "u", "i", "d", "e">>, <<"g", "u", "i",
        "d", "e">>, <<"h", "o", "w", "-", "t", "o">>, <<"h", "o", "w", " ", "t", "o">>, <<"h", "o", "w",
              "t", "o">>, <<"o", "v", "e", "r", "v", "i", "e", "w">>,
                   <<"r", "e", "s", "o", "u", "r", "c", "e", "s">>} : hasWord(name, w)
      \/ endsWithLaw /\ ~hasVendorToken(n)
      \/ hasWord(name, <<"l", "e", "g", "a", "l", " ", "h", "i", "s", "t", "o", "r", "y">>)
      \/ hasWord(name, <<"f", "o", "r", "e", "i", "g", "n", " ", "&", " ", "i", "n", "t", "e", "r", "n",
            "a", "t", "i", "o", "n", "a", "l", " ", "l", "a", "w">>)
      \/ hasWord(name, <<"f", "o", "r", "e", "i", "g", "n", " ", " ", "i", "n", "t", "e", "r", "n", "a",
            "t", "i", "o", "n", "a", "l", " ", "l", "a", "w">>)

\* filterGuides(items)
filterGuides(items) ==
  PickSeq(items, {i \in 1..Len(items) :
                    looksLikePlatform(items[i].name) \/ ~GUIDE_PATTERNS(items[i].name)})

(***************************************************************************)
(* Keyword fallback (server.js 835-851, 1118-1156)                         *)
(***************************************************************************)
\* scoreAgainstWhitelist(query)
scoreAgainstWhitelist(query) ==
  LET q == normalize(query)
      match == strict([i \in 1..Len(WHITELIST) |-> lexicalMatch(q, WHITELIST[i])])
      scored == strict([i \in 1..Len(WHITELIST) |->
                  [name |-> WHITELIST[i].name, score |-> match[i]]])
  IN  sortByScore(PickSeq(scored, {i \in 1..Len(WHITELIST) : match[i] > 0}))

COMMON ==
  <<<<"H", "e", "i", "n", "O", "n", "l", "i", "n", "e">>, <<"W", "e", "s", "t", "l", "a", "w">>, <<"L",
        "e", "x", "i", "s">>, <<"B", "l", "o", "o", "m", "b", "e", "r", "g", " ", "L", "a", "w">>, <<"L",
              "e", "g", "a", "l", "T", "r", "a", "c">>,
    <<"I", "n", "d", "e", "x", " ", "t", "o", " ", "L", "e", "g", "a", "l", " ", "P", "e", "r", "i", "o",
          "d", "i", "c", "a", "l", "s">>, <<"J", "S", "T", "O", "R">>, <<"P", "r", "o", "Q", "u", "e", "s",
                "t">>, <<"K", "l", "u", "w", "e", "r", " ", "A", "r", "b", "i", "t", "r", "a", "t", "i",
                      "o", "n">>,
    <<"O", "x", "f", "o", "r", "d", " ", "P", "u", "b", "l", "i", "c", " ", "I", "n", "t", "e", "r", "n",
          "a", "t", "i", "o", "n", "a", "l", " ", "L", "a", "w">>, <<"O", "x", "f", "o", "r", "d", " ",
                "C", "o", "n", "s", "t", "i", "t", "u", "t", "i", "o", "n", "a", "l", " ", "L", "a", "w">>,
                      <<"V", "i", "t", "a", "l", "L", "a", "w">>, <<"v", "L", "e", "x">>>>


\* fallbackRecommend(query, limit)
fallbackRecommend(query, limit) ==
  LET scored == slice0(scoreAgainstWhitelist(query), SetMax({limit * 2, 20}))
      results == filterGuides(strict([i \in 1..Len(scored) |->
                   mkItem(scored[i].name, SetMin({100, 50 + scored[i].score * 8}),
                          <<"K", "e", "y", "w", "o", "r", "d", " ", "o", "v", "e", "r", "l", "a", "p", " ",
                                "w", "i", "t", "h", " ", "q", "u", "e", "r", "y", ".">>, <<>>, <<>>,
                                      NoFlags)]))
      \* the loop over COMMON: [list, done], done once results.length >= limit
      C[i \in 0..Len(COMMON)] ==
        IF i = 0 THEN [list |-> <<>>, done |-> FALSE]
        ELSE LET prev == C[i - 1]
                 list == IF isWhitelistedLoose(COMMON[i])
                           THEN Append(prev.list,
                                  mkItem(COMMON[i], 60,
                                         <<"C", "o", "r", "e", " ", "l", "e", "g", "a", "l", " ", "r", "e",
                                               "s", "e", "a", "r", "c", "h", " ", "p", "l", "a", "t", "f",
                                                     "o", "r", "m", " ", "f", "o", "r", " ", "b", "r", "o",
                                                           "a", "d", " ", "q", "u", "e", "r", "i", "e",
                                                                 "s", ".">>,
                                         <<>>, <<>>, NoFlags))
                           ELSE prev.list
             IN  IF prev.done THEN prev ELSE [list |-> list, done |-> Len(list) >= limit]
      all == IF Len(results) = 0 THEN C[Len(COMMON)].list ELSE results
  IN  enrichResults(slice0(sortByRelevance(bestMap(all)), limit))

(***************************************************************************)
(* The recommender's output (server.js 1008-1114)                          *)
(***************************************************************************)
\* a JSON value read as a score: a number, a string, or absent
jsonNumber(n) == [kind |-> "number", num |-> n, str |-> <<>>]

jsonString(s) == [kind |-> "string", num |-> 0, str |-> s]

jsonAbsent == [kind |-> "undefined", num |-> 0, str |-> <<>>]

\* an object of the recommender's JSON; an absent key is UNDEFINED / jsonAbsent
rawObject(name, platform, relevanceScore, score, matchReason) ==
  [name |-> name, platform |-> platform, relevanceScore |-> relevanceScore,
   score |-> score, matchReason |-> matchReason]

\* the value of a character of 0..9
digitValue(c) == CHOOSE d \in 0..9 : <<"0", "1", "2", "3", "4", "5", "6", "7", "8", "9">>[d + 1] = c

\* Number.isFinite(+v) ? +v : 0, for a number or a string of an optional sign and digits
finiteOrZero(v) ==
  IF v.kind = "number" THEN v.num
  ELSE IF v.kind = "undefined" THEN 0
  ELSE LET t == trim(v.str)
           signed == Len(t) >= 1 /\ t[1] \in {"+", "-"}
           d == IF signed THEN Tail(t) ELSE t
           V[i \in 0..Len(d)] == IF i = 0 THEN 0 ELSE 10 * V[i - 1] + digitValue(d[i])
       IN  IF t = <<>> THEN 0
           ELSE IF d = <<>> \/ \E i \in 1..Len(d) : d[i] \notin Digits THEN 0
           ELSE IF signed /\ t[1] = "-" THEN 0 - V[Len(d)] ELSE V[Len(d)]

\* a || b for strings
orElse(a, b) == IF a = UNDEFINED \/ a = <<>> THEN b ELSE a

\* coerceItem(r)
coerceItem(r) ==
  LET name == orElse(r.name, orElse(r.platform, <<>>))
      score == IF r.relevanceScore.kind # "undefined" THEN r.relevanceScore
               ELSE IF r.score.kind # "undefined" THEN r.score
               ELSE jsonNumber(0)
      reason == orElse(r.matchReason, <<>>)
  IN  mkItem(trim(name), finiteOrZero(score), trim(reason), <<>>, <<>>, NoFlags)

\* parseGeminiJsonLoose(text).  A text is [shape, objects]: "array" is a JSON array of the
\* objects, "fenced" the same inside a ```json fence, "truncated" an array cut off inside its
\* last object, "prose" a text with no JSON in it (objects is empty)
parseGeminiJsonLoose(text) ==
  IF text.shape \in {"array", "fenced"} THEN text.objects
  ELSE IF text.shape = "truncated" THEN SubSeq(text.objects, 1, Len(text.objects) - 1)
  ELSE <<>>

(***************************************************************************)
(* Legal advice detection (server.js 169-272)                              *)
(***************************************************************************)
\* the alternatives of the six regular expressions and the phrases of the includes() list
LEGAL_PHRASES ==
  {<<"s", "h", "o", "u", "l", "d", " ", "i">>, <<"w", "h", "a", "t", " ", "s", "h", "o", "u", "l", "d",
        " ", "i">>, <<"w", "o", "u", "l", "d", " ", "y", "o", "u", " ", "r", "e", "c", "o", "m", "m", "e",
              "n", "d">>, <<"w", "h", "a", "t", " ", "w", "o", "u", "l", "d", " ", "y", "o", "u", " ", "r",
                    "e", "c", "o", "m", "m", "e", "n", "d">>,
   <<"t", "e", "l", "l", " ", "m", "e", " ", "w", "h", "a", "t", " ", "t", "o", " ", "d", "o">>, <<"w",
         "h", "a", "t", "'", "s", " ", "t", "h", "e", " ", "r", "i", "g", "h", "t", " ", "d", "e", "c",
               "i", "s", "i", "o", "n">>, <<"w", "h", "a", "t", " ", "w", "o", "u", "l", "d", " ", "a",
                     " ", "l", "a", "w", "y", "e", "r", " ", "s", "a", "y">>,
   <<"i", "'", "m", " ", "b", "e", "i", "n", "g">>, <<"i", " ", "t", "h", "i", "n", "k", " ", "i", "'",
         "m">>, <<"m", "y", " ", "c", "h", "i", "l", "d", " ", "w", "a", "s">>, <<"h", "e", "l", "p", " ",
               "m", "e", " ", "w", "i", "t", "h", " ", "m", "y", " ", "c", "a", "s", "e">>,
   <<"i", " ", "n", "e", "e", "d", " ", "l", "e", "g", "a", "l", " ", "a", "d", "v", "i", "c", "e">>,
   <<"c", "a", "n", " ", "y", "o", "u", " ", "r", "e", "p", "r", "e", "s", "e", "n", "t">>, <<"c", "a",
         "n", " ", "y", "o", "u", " ", "f", "i", "l", "e">>, <<"c", "a", "n", " ", "y", "o", "u", " ", "n",
               "o", "t", "a", "r", "i", "z", "e">>, <<"r", "e", "p", "r", "e", "s", "e", "n", "t", " ",
                     "m", "e", " ", "i", "n", " ", "c", "o", "u", "r", "t">>,
   <<"w", "i", "l", "l", " ", "i", " ", "w", "i", "n">>, <<"w", "i", "l", "l", " ", "i", " ", "g", "o",
         " ", "t", "o", " ", "j", "a", "i", "l">>, <<"w", "i", "l", "l", " ", "t", "h", "e", " ", "j", "u",
               "d", "g", "e">>, <<"w", "h", "a", "t", " ", "a", "r", "e", " ", "m", "y", " ", "c", "h",
                     "a", "n", "c", "e", "s">>,
   <<"h", "o", "w", " ", "m", "u", "c", "h", " ", "m", "o", "n", "e", "y", " ", "w", "i", "l", "l", " ",
         "i", " ", "g", "e", "t">>, <<"w", "i", "l", "l", " ", "i", " ", "l", "o", "s", "e", " ", "m", "y",
               " ", "h", "o", "u", "s", "e">>,
   <<"s", "h", "o", "u", "l", "d", " ", "i", " ", "s", "u", "e">>, <<"c", "a", "n", " ", "i", " ", "s",
         "u", "e">>, <<"d", "o", " ", "i", " ", "h", "a", "v", "e", " ", "a", " ", "c", "a", "s", "e">>,
               <<"i", "s", " ", "i", "t", " ", "w", "o", "r", "t", "h">>, <<"s", "h", "o", "u", "l", "d",
                     " ", "i", " ", "f", "i", "l", "e">>,
   <<"i", "'", "m", " ", "b", "e", "i", "n", "g", " ", "a", "b", "u", "s", "e", "d">>, <<"i", " ", "t",
         "h", "i", "n", "k", " ", "i", "'", "m", " ", "b", "e", "i", "n", "g", " ", "s", "t", "a", "l",
               "k", "e", "d">>, <<"w", "h", "a", "t", " ", "s", "h", "o", "u", "l", "d", " ", "i", " ",
                     "d", "o", " ", "i", "f">>,
   <<"i", "s", " ", "i", "t", " ", "s", "a", "f", "e", " ", "t", "o">>,
   <<"d", "i", "v", "o", "r", "c", "e", " ", "h", "e", "l", "p">>, <<"c", "u", "s", "t", "o", "d", "y",
         " ", "h", "e", "l", "p">>, <<"l", "e", "g", "a", "l", " ", "h", "e", "l", "p">>, <<"h", "e", "l",
               "p", " ", "w", "i", "t", "h", " ", "d", "i", "v", "o", "r", "c", "e">>,
   <<"h", "e", "l", "p", " ", "g", "e", "t", "t", "i", "n", "g", " ", "d", "i", "v", "o", "r", "c", "e",
         "d">>, <<"i", " ", "n", "e", "e", "d", " ", "h", "e", "l", "p", " ", "w", "i", "t", "h", " ", "m",
               "y", " ", "d", "i", "v", "o", "r", "c", "e">>, <<"i", " ", "w", "a", "n", "t", " ", "a",
                     " ", "d", "i", "v", "o", "r", "c", "e">>,
   <<"h", "e", "l", "p", " ", "s", "u", "i", "n", "g">>, <<"h", "e", "l", "p", " ", "g", "e", "t", "t",
         "i", "n", "g", " ", "a", " ", "d", "i", "v", "o", "r", "c", "e">>, <<"i", " ", "w", "o", "u", "l",
               "d", " ", "l", "i", "k", "e", " ", "a", " ", "d", "i", "v", "o", "r", "c", "e">>,
   <<"w", "h", "a", "t", "'", "s", " ", "t", "h", "e", " ", "b", "e", "s", "t", " ", "w", "a", "y", " ",
         "t", "o", " ", "h", "a", "n", "d", "l", "e">>, <<"h", "o", "w", " ", "c", "a", "n", " ", "i", " ",
               "g", "e", "t", " ", "a", "r", "o", "u", "n", "d">>,
   <<"w", "h", "a", "t", "'", "s", " ", "t", "h", "e", " ", "b", "e", "s", "t", " ", "w", "a", "y", " ",
         "t", "o", " ", "h", "i", "d", "e">>, <<"c", "a", "n", " ", "i", " ", "g", "e", "t", " ", "d", "i",
               "s", "a", "b", "i", "l", "i", "t", "y", " ", "f", "o", "r">>}

\* isLegalAdviceRequest(query)
isLegalAdviceRequest(query) ==
  LET q == trim(toLowerCase(query))
      has(p) == includes(q, p)
  IN  \/ \E p \in LEGAL_PHRASES : has(p)
      \/ has(<<"h", "e", "l", "p">>) /\ (has(<<"d", "i", "v", "o", "r", "c", "e">>) \/ has(<<"l", "a", "w",
            "s", "u", "i", "t">>) \/ has(<<"s", "u", "i", "n", "g">>))
      \/ has(<<"i", " ", "n", "e", "e", "d">>) /\ has(<<"d", "i", "v", "o", "r", "c", "e">>)
      \/ has(<<"h", "o", "w", " ", "c", "a", "n", " ", "i", " ", "w", "i", "n">>) /\ (has(<<"c", "a", "s",
            "e">>) \/ has(<<"c", "o", "u", "r", "t">>))
      \/ has(<<"w", "h", "a", "t", " ", "s", "h", "o", "u", "l", "d", " ", "i", " ", "d",
            "o">>) /\ (has(<<"l", "e", "g", "a", "l">>) \/ has(<<"c", "o", "u", "r", "t">>) \/ has(<<"l",
                  "a", "w", "s", "u", "i", "t">>))

LegalHelpFlags == [NoFlags EXCEPT !.isLegalHelp = TRUE]

\* createLegalHelpResponse()
createLegalHelpResponse ==
  <<mkItem(<<"U", "t", "a", "h", " ", "L", "e", "g", "a", "l", " ", "S", "e", "r", "v", "i", "c",
      "e", "s">>, 95, <<"F", "r", "e", "e", " ", "l", "e", "g", "a", "l", " ", "a", "i", "d",
      " ", "f", "o", "r", " ", "l", "o", "w", "-", "i", "n", "c", "o", "m", "e", " ", "i", "n",
      "d", "i", "v", "i", "d", "u", "a", "l", "s">>, <<"h", "t", "t", "p", "s", ":", "/", "/",
      "w", "w", "w", ".", "u", "t", "a", "h", "l", "e", "g", "a", "l", "s", "e", "r", "v", "i",
      "c", "e", "s", ".", "o", "r", "g", "/">>, <<"P", "r", "o", "v", "i", "d", "e", "s", " ",
      "f", "r", "e", "e", " ", "c", "i", "v", "i", "l", " ", "l", "e", "g", "a", "l", " ", "a",
      "s", "s", "i", "s", "t", "a", "n", "c", "e", " ", "t", "o", " ", "l", "o", "w", "-", "i",
      "n", "c", "o", "m", "e", " ", "U", "t", "a", "h", "n", "s", " ", "i", "n", " ", "m", "a",
      "t", "t", "e", "r", "s", " ", "i", "n", "c", "l", "u", "d", "i", "n", "g", " ", "h", "o",
      "u", "s", "i", "n", "g", ",", " ", "f", "a", "m", "i", "l", "y", " ", "l", "a", "w", ",",
      " ", "p", "u", "b", "l", "i", "c", " ", "b", "e", "n", "e", "f", "i", "t", "s", ",", " ",
      "a", "n", "d", " ", "m", "o", "r", "e", ".">>, LegalHelpFlags), mkItem(<<"U", "t", "a",
      "h", " ", "S", "t", "a", "t", "e", " ", "B", "a", "r", " ", "P", "r", "o", " ", "B", "o",
      "n", "o", " ", "P", "r", "o", "g", "r", "a", "m">>, 95, <<"P", "r", "o", " ", "b", "o",
      "n", "o", " ", "a", "t", "t", "o", "r", "n", "e", "y", " ", "r", "e", "f", "e", "r", "r",
      "a", "l", "s">>, <<"h", "t", "t", "p", "s", ":", "/", "/", "w", "w", "w", ".", "u", "t",
      "a", "h", "b", "a", "r", ".", "o", "r", "g", "/", "p", "r", "o", "-", "b", "o", "n", "o",
      "/">>, <<"C", "o", "n", "n", "e", "c", "t", "s", " ", "i", "n", "d", "i", "v", "i", "d",
      "u", "a", "l", "s", " ", "w", "h", "o", " ", "c", "a", "n", "n", "o", "t", " ", "a", "f",
      "f", "o", "r", "d", " ", "l", "e", "g", "a", "l", " ", "r", "e", "p", "r", "e", "s", "e",
      "n", "t", "a", "t", "i", "o", "n", " ", "w", "i", "t", "h", " ", "v", "o", "l", "u", "n",
      "t", "e", "e", "r", " ", "a", "t", "t", "o", "r", "n", "e", "y", "s", " ", "w", "i", "l",
      "l", "i", "n", "g", " ", "t", "o", " ", "p", "r", "o", "v", "i", "d", "e", " ", "f", "r",
      "e", "e", " ", "l", "e", "g", "a", "l", " ", "s", "e", "r", "v", "i", "c", "e", "s", ".">>,
      LegalHelpFlags), mkItem(<<"U", "t", "a", "h", " ", "S", "t", "a", "t", "e", " ", "B", "a",
      "r", " ", "L", "a", "w", "y", "e", "r", " ", "R", "e", "f", "e", "r", "r", "a", "l", " ",
      "S", "e", "r", "v", "i", "c", "e", "s">>, 90, <<"P", "a", "i", "d", " ", "a", "t", "t",
      "o", "r", "n", "e", "y", " ", "r", "e", "f", "e", "r", "r", "a", "l", " ", "s", "e", "r",
      "v", "i", "c", "e">>, <<"h", "t", "t", "p", "s", ":", "/", "/", "w", "w", "w", ".", "u",
      "t", "c", "o", "u", "r", "t", "s", ".", "g", "o", "v", "/", "e", "n", "/", "l", "e", "g",
      "a", "l", "-", "h", "e", "l", "p", "/", "l", "e", "g", "a", "l", "-", "h", "e", "l", "p",
      "/", "f", "i", "n", "d", "i", "n", "g", "-", "l", "e", "g", "a", "l", "-", "h", "e", "l",
      "p", "/", "l", "e", "g", "a", "l", "-", "c", "l", "i", "n", "i", "c", "s", ".", "h", "t",
      "m", "l">>, <<"H", "e", "l", "p", "s", " ", "y", "o", "u", " ", "f", "i", "n", "d", " ",
      "q", "u", "a", "l", "i", "f", "i", "e", "d", " ", "a", "t", "t", "o", "r", "n", "e", "y",
      "s", " ", "f", "o", "r", " ", "l", "e", "g", "a", "l", " ", "c", "o", "n", "s", "u", "l",
      "t", "a", "t", "i", "o", "n", " ", "a", "n", "d", " ", "r", "e", "p", "r", "e", "s", "e",
      "n", "t", "a", "t", "i", "o", "n", ".", " ", "I", "n", "i", "t", "i", "a", "l", " ", "c",
      "o", "n", "s", "u", "l", "t", "a", "t", "i", "o", "n", " ", "f", "e", "e", "s", " ", "m",
      "a", "y", " ", "a", "p", "p", "l", "y", ".">>, LegalHelpFlags), mkItem(<<"T", "i", "m",
      "p", "a", "n", "o", "g", "o", "s", " ", "L", "e", "g", "a", "l", " ", "C", "e", "n", "t",
      "e", "r">>, 85, <<"L", "o", "c", "a", "l", " ", "l", "e", "g", "a", "l", " ", "c", "l",
      "i", "n", "i", "c", " ", "i", "n", " ", "P", "r", "o", "v", "o">>, <<"h", "t", "t", "p",
      "s", ":", "/", "/", "w", "w", "w", ".", "t", "i", "m", "p", "l", "e", "g", "a", "l", ".",
      "o", "r", "g", "/", "l", "e", "g", "a", "l", "-", "s", "e", "r", "v", "i", "c", "e", "s",
      "/", "c", "l", "i", "n", "i", "c", "s">>, <<"P", "r", "o", "v", "i", "d", "e", "s", " ",
      "l", "e", "g", "a", "l", " ", "s", "e", "r", "v", "i", "c", "e", "s", " ", "a", "n", "d",
      " ", "c", "l", "i", "n", "i", "c", "s", ".", " ", "H", "o", "u", "r", "s", ":", " ", "T",
      "u", "e", "s", "d", "a", "y", "s", " ", "f", "r", "o", "m", " ", "5", "p", "m", "-", "8",
      "p", "m", " ", "(", "b", "y", " ", "a", "p", "p", "o", "i", "n", "t", "m", "e", "n", "t",
      " ", "o", "n", "l", "y", ")", ".", " ", "L", "o", "c", "a", "t", "i", "o", "n", ":", " ",
      "H", "e", "a", "l", "t", "h", " ", "a", "n", "d", " ", "J", "u", "s", "t", "i", "c", "e",
      " ", "B", "u", "i", "l", "d", "i", "n", "g", ",", " ", "1", "s", "t", " ", "F", "l", "o",
      "o", "r", ",", " ", "1", "5", "1", " ", "S", " ", "U", "n", "i", "v", "e", "r", "s", "i",
      "t", "y", " ", "A", "v", "e", "n", "u", "e", ",", " ", "P", "r", "o", "v", "o", ",", " ",
      "U", "T", " ", "8", "4", "6", "0", "1">>, LegalHelpFlags), mkItem(<<"B", "Y", "U", " ",
      "C", "o", "m", "m", "u", "n", "i", "t", "y", " ", "L", "e", "g", "a", "l", " ", "C", "l",
      "i", "n", "i", "c">>, 90, <<"B", "Y", "U", " ", "L", "a", "w", " ", "S", "c", "h", "o",
      "o", "l", " ", "c", "l", "i", "n", "i", "c">>, <<"h", "t", "t", "p", "s", ":", "/", "/",
      "l", "a", "w", ".", "b", "y", "u", ".", "e", "d", "u", "/", "e", "x", "p", "l", "o", "r",
      "e", "/", "r", "e", "s", "o", "u", "r", "c", "e", "s", "/", "c", "e", "n", "t", "e", "r",
      "s", "-", "c", "l", "i", "n", "i", "c", "s", "/", "c", "o", "m", "m", "u", "n", "i", "t",
      "y", "-", "l", "e", "g", "a", "l", "-", "c", "l", "i", "n", "i", "c", "#", "1">>, <<"S",
      "t", "u", "d", "e", "n", "t", "-", "s", "u", "p", "e", "r", "v", "i", "s", "e", "d", " ",
      "l", "e", "g", "a", "l", " ", "c", "l", "i", "n", "i", "c", " ", "p", "r", "o", "v", "i",
      "d", "i", "n", "g", " ", "f", "r", "e", "e", " ", "l", "e", "g", "a", "l", " ", "s", "e",
      "r", "v", "i", "c", "e", "s", ".", " ", "H", "o", "u", "r", "s", ":", " ", "T", "h", "u",
      "r", "s", "d", "a", "y", "s", " ", "5", "p", "m", "-", "7", "p", "m", " ", "(", "b", "y",
      " ", "a", "p", "p", "o", "i", "n", "t", "m", "e", "n", "t", " ", "o", "n", "l", "y", ")",
      ".", " ", "E", "m", "a", "i", "l", ":", " ", "c", "o", "m", "m", "u", "n", "i", "t", "y",
      "l", "e", "g", "a", "l", "c", "l", "i", "n", "i", "c", "@", "l", "a", "w", ".", "b", "y",
      "u", ".", "e", "d", "u", ",", " ", "P", "h", "o", "n", "e", ":", " ", "8", "0", "1", "-",
      "2", "9", "7", "-", "7", "0", "4", "9", ".", " ", "L", "o", "c", "a", "t", "i", "o", "n",
      ":", " ", "1", "0", "6", "0", " ", "E", ".", " ", "C", "a", "m", "p", "u", "s", " ", "D",
      "r", ".", " ", "P", "r", "o", "v", "o", ",", " ", "U", "T", " ", "8", "4", "6", "0", "4">>,
      LegalHelpFlags)>>

(***************************************************************************)
(* Rate limiting and authentication (server.js 71-127, 431-450)            *)
(***************************************************************************)
RATE_LIMIT_WINDOW == 60 * 1000

MAX_REQUESTS_PER_WINDOW == 10

\* checkRateLimit(ip): the decision, and the Map after the call
checkRateLimit(ip) ==
  LET fresh == [ip |-> ip, count |-> 1, resetTime |-> now + RATE_LIMIT_WINDOW]
      old == {e \in rateLimiter : e.ip = ip}
      limiter == CHOOSE e \in old : TRUE
  IN  IF old = {}
        THEN [allowed |-> TRUE, remaining |-> MAX_REQUESTS_PER_WINDOW - 1,
              limiter |-> rateLimiter \cup {fresh}]
      ELSE IF now > limiter.resetTime
        THEN [allowed |-> TRUE, remaining |-> MAX_REQUESTS_PER_WINDOW - 1,
              limiter |-> (rateLimiter \ old) \cup {fresh}]
      ELSE IF limiter.count >= MAX_REQUESTS_PER_WINDOW
        THEN [allowed |-> FALSE, remaining |-> 0, limiter |-> rateLimiter]
      ELSE [allowed |-> TRUE, remaining |-> MAX_REQUESTS_PER_WINDOW - (limiter.count + 1),
            limiter |-> (rateLimiter \ old)
                          \cup {[limiter EXCEPT !.count = limiter.count + 1]}]

\* checkRateLimit(ip) when the Map rateLimiter holds the entries of limiterMap
checkRateLimitIn(limiterMap, ip) ==
  LET fresh == [ip |-> ip, count |-> 1, resetTime |-> now + RATE_LIMIT_WINDOW]
      old == {e \in limiterMap : e.ip = ip}
      limiter == CHOOSE e \in old : TRUE
  IN  IF old = {}
        THEN [allowed |-> TRUE, remaining |-> MAX_REQUESTS_PER_WINDOW - 1,
              limiter |-> limiterMap \cup {fresh}]
      ELSE IF now > limiter.resetTime
        THEN [allowed |-> TRUE, remaining |-> MAX_REQUESTS_PER_WINDOW - 1,
              limiter |-> (limiterMap \ old) \cup {fresh}]
      ELSE IF limiter.count >= MAX_REQUESTS_PER_WINDOW
        THEN [allowed |-> FALSE, remaining |-> 0, limiter |-> limiterMap]
      ELSE [allowed |-> TRUE, remaining |-> MAX_REQUESTS_PER_WINDOW - (limiter.count + 1),
            limiter |-> (limiterMap \ old)
                          \cup {[limiter EXCEPT !.count = limiter.count + 1]}]

\* requireApiKey lets the request through (calls next())
requireApiKey(r) ==
  \/ r.path = <<"/", "h", "e", "a", "l", "t", "h">> \/ r.ip = <<"1", "2", "7", ".", "0", ".", "0", ".",
        "1">> \/ r.ip = <<":", ":", "1">>
  \/ LOCAL_API_KEY = UNDEFINED \/ LOCAL_API_KEY = <<>>
  \/ ~(r.apiKey = UNDEFINED \/ r.apiKey = <<>>) /\ r.apiKey = LOCAL_API_KEY

(***************************************************************************)
(* The search handlers (server.js 1243-1400, 1405-1526) and the            *)
(* recommender client (server.js 464-491, 945-1003)                        *)
(***************************************************************************)
\* res.json(results)
jsonArray(results) ==
  [status |-> 200, body |-> "array", results |-> results, fallback |-> FALSE, error |-> <<>>]

\* res.json({ diagnostics, results })
jsonDiagnostics(results) ==
  [status |-> 200, body |-> "object", results |-> results, fallback |-> FALSE, error |-> <<>>]

\* res.json({ results, fallback: true, message })
jsonFallback(results) ==
  [status |-> 200, body |-> "object", results |-> results, fallback |-> TRUE, error |-> <<>>]

\* res.status(status).json({ error })
jsonError(status, error) ==
  [status |-> status, body |-> "object", results |-> <<>>, fallback |-> FALSE, error |-> error]

\* !query || !String(query).trim()
isBlank(query) == query = UNDEFINED \/ trim(query) = <<>>

\* aiParsed.map(coerceItem).filter((r) => r.name)
cleanedOf(text) ==
  LET named(items) == PickSeq(items, {i \in 1..Len(items) : items[i].name # <<>>})
      coerced(aiParsed) == strict([i \in 1..Len(aiParsed) |-> coerceItem(aiParsed[i])])
  IN  named(coerced(parseGeminiJsonLoose(text)))

\* mutant: the whitelist filter is never applied
validatedOfNoFilter(afterGuideFilter, skipWhitelist) == afterGuideFilter

\* skipWhitelist ? afterGuideFilter : afterGuideFilter.filter((r) => isWhitelistedLoose(r.name))
validatedOf(afterGuideFilter, skipWhitelist) ==
  IF skipWhitelist THEN afterGuideFilter
  ELSE PickSeq(afterGuideFilter,
               {i \in 1..Len(afterGuideFilter) : isWhitelistedLoose(afterGuideFilter[i].name)})

\* aiResults after the whitelist filter, for a text of the recommender
aiResultsOf(text, skipWhitelist) == validatedOf(filterGuides(cleanedOf(text)), skipWhitelist)

\* `if (aiResults.length === 0) aiResults = fallbackRecommend(query, 8)`
orFallback(aiResults, query) == IF Len(aiResults) = 0 THEN fallbackRecommend(query, 8) ELSE aiResults

\* enriched: the try block from parseGeminiJsonLoose(text) to enrichResults(finalOut)
enrichedOf(query, text, skipWhitelist) ==
  enrichResults(finalOut(bestMap(orFallback(aiResultsOf(text, skipWhitelist), query)
                                   \o searchLocalGuides(query) \o searchLibGuideAssets(query))))

\* isApiServiceError of the catch block of /search
isApiServiceError(message) ==
  /\ message # <<>>
  /\ \E w \in {<<"q", "u", "o", "t", "a">>, <<"4", "2", "9">>, <<"R", "E", "S", "O", "U", "R", "C", "E",
        "_", "E", "X", "H", "A", "U", "S", "T", "E", "D">>, <<"5", "0", "3">>, <<"5", "0", "0">>, <<"5",
              "0", "2">>, <<"o", "v", "e", "r", "l", "o", "a", "d", "e", "d">>,
               <<"t", "e", "m", "p", "o", "r", "a", "r", "i", "l", "y", " ", "u", "n", "a", "v", "a", "i",
                     "l", "a", "b", "l", "e">>, <<"s", "e", "r", "v", "i", "c", "e", " ", "u", "n", "a",
                           "v", "a", "i", "l", "a", "b", "l", "e">>, <<"t", "i", "m", "e", "o", "u", "t">>,
               <<"D", "E", "A", "D", "L", "I", "N", "E", "_", "E", "X", "C", "E", "E", "D", "E",
                     "D">>} : includes(message, w)

\* the catch block of /search
catchSearch(query, message) ==
  IF isApiServiceError(message)
    THEN jsonFallback(enrichResults(fallbackRecommend(query, 3)
                                      \o slice0(searchLocalGuides(query), 2)
                                      \o slice0(searchLibGuideAssets(query), 2)))
    ELSE jsonError(502, <<"E", "r", "r", "o", "r", " ", "c", "o", "n", "t", "a", "c", "t", "i", "n", "g",
          " ", "G", "e", "m", "i", "n", "i", " ", "A", "P", "I">>)

\* the catch block of /wp-json/ais/v1/search
catchWordPress(query, message) == jsonError(500, <<"E", "r", "r", "o", "r", " ", "c", "o", "n", "t", "a",
      "c", "t", "i", "n", "g", " ", "G", "e", "m", "i", "n", "i", " ", "A", "P", "I">>)

\* `Gemini HTTP ${status}: ${t.slice(0, 400)}`
httpErrorMessage(status, t) ==
  LET d == <<"0", "1", "2", "3", "4", "5", "6", "7", "8", "9">>
  IN  <<"G", "e", "m", "i", "n", "i", " ", "H", "T", "T", "P", " ">>
        \o <<d[(status \div 100) + 1], d[((status \div 10) % 10) + 1], d[(status % 10) + 1]>>
        \o <<":", " ">> \o slice0(t, 400)

TIMEOUT_MESSAGE == <<"A", "I", " ", "r", "e", "q", "u", "e", "s", "t", " ", "t", "i", "m", "e", "d", " ",
      "o", "u", "t", " ", "-", " ", "t", "r", "y", " ", "a", " ", "s", "i", "m", "p", "l", "e", "r", " ",
            "q", "u", "e", "r", "y">>

NO_MODEL_MESSAGE == <<"N", "o", " ", "w", "o", "r", "k", "i", "n", "g", " ", "G", "e", "m", "i", "n", "i",
      " ", "m", "o", "d", "e", "l", " ", "f", "o", "u", "n", "d", " ", "f", "o", "r", " ", "y", "o", "u",
            "r", " ", "A", "P", "I", " ", "k", "e", "y">>

SEARCH_PATH == <<"/", "s", "e", "a", "r", "c", "h">>

WORDPRESS_PATH == <<"/", "w", "p", "-", "j", "s", "o", "n", "/", "a", "i", "s", "/", "v", "1", "/", "s",
      "e", "a", "r", "c", "h">>

(***************************************************************************)
(* Startup data and inputs of the specification of the server              *)
(***************************************************************************)
\* library-resources-database.catalog.json
GuidesFile ==
  <<catItem(<<"W", "a", "t", "e", "r", " ", "L", "a", "w">>, <<"g", "u", "i", "d", "e", "s", ".", "l", "a",
        "w", ".", "b", "y", "u", ".", "e", "d", "u", "/", "w", "a", "t", "e", "r">>, <<"W", "a", "t", "e",
              "r", " ", "r", "i", "g", "h", "t", "s">>, <<<<"w", "a", "t", "e", "r", " ", "r", "i", "g",
                    "h", "t", "s">>>>,
            <<>>, "isLocalGuide"),
    catItem(<<"A", "f", "g", "h", "a", "n", "i", "s", "t", "a", "n", " ", "W", "a", "t", "e", "r", " ",
          "L", "a", "w">>, <<>>, <<>>, <<>>, <<>>, "isLocalGuide")>>

\* resource-database.catalog.json
DatabasesFile ==
  <<catItem(<<"W", "e", "s", "t", "l", "a", "w">>, <<"h", "t", "t", "p", "s", ":", "/", "/", "w", "w", "w",
        ".", "w", "e", "s", "t", "l", "a", "w", ".", "c", "o", "m">>, <<"C", "a", "s", "e", " ", "l", "a",
              "w">>, <<<<"W", "e", "s", "t", "l", "a", "w", " ", "E", "d", "g", "e">>>>, <<>>,
            "isExternalDatabase"),
    catItem(<<"H", "e", "i", "n", "O", "n", "l", "i", "n", "e">>, <<"h", "e", "i", "n", "o", "n", "l", "i",
          "n", "e", ".", "o", "r", "g">>, <<>>, <<>>, <<>>, "isExternalDatabase")>>

\* the values of libguide-assets.catalog.json
AssetsFile ==
  <<catItem(<<"W", "a", "t", "e", "r", " ", "L", "a", "w">>, <<>>, <<>>, <<>>, <<<<"w", "a", "t", "e",
        "r">>>>, "isLibGuideAsset"),
    catItem(<<"U", "t", "a", "h", " ", "C", "o", "d", "e">>, <<"l", "e", ".", "u", "t", "a", "h", ".", "g",
          "o", "v">>, <<"U", "t", "a", "h", " ", "s", "t", "a", "t", "u", "t", "e", "s">>, <<>>, <<<<"l",
                "a", "w">>>>,
            "isLibGuideAsset")>>

\* library-resources-database.whitelist.json
WL_A == <<WLEntry(<<"W", "a", "t", "e", "r", " ", "L", "a", "w">>, <<>>)>>

\* resource-database.whitelist.json
WL_B == <<WLEntry(<<"W", "e", "s", "t", "l", "a", "w">>, <<<<"W", "e", "s", "t", "l", "a", "w", " ", "E",
      "d", "g", "e">>>>), WLEntry(<<"H", "e", "i", "n", "O", "n", "l", "i", "n", "e">>, <<>>)>>

\* CATALOG_C.map(item => ({ name: item.name }))
WL_C(catalogC) == strict([i \in 1..Len(catalogC) |-> WLEntry(catalogC[i].name, <<>>)])

MODEL == <<"g", "e", "m", "i", "n", "i", "-", "2", ".", "0", "-", "f", "l", "a", "s", "h", "-", "l", "i",
      "t", "e">>

ClientIP == <<"2", "0", "3", ".", "0", ".", "1", "1", "3", ".", "7">>

ApiKey == <<"s", "e", "c", "r", "e", "t">>

Queries == {<<"w", "a", "t", "e", "r", " ", "l", "a", "w">>, <<"w", "e", "s", "t", "l", "a", "w">>, <<"c",
      "a", "n", " ", "i", " ", "s", "u", "e">>, <<"z", "z", "z">>, <<" ">>, UNDEFINED}

\* the requests: every query on both endpoints with and without skipWhitelist=1, a request
\* without the API key, and a request with debug=1
Requests ==
  {[path |-> p, ip |-> ClientIP, apiKey |-> ApiKey, query |-> q, skipWhitelist |-> s,
    debug |-> 0] : p \in {SEARCH_PATH, WORDPRESS_PATH}, q \in Queries, s \in {UNDEFINED, <<"1">>}}
  \cup {[path |-> SEARCH_PATH, ip |-> ClientIP, apiKey |-> UNDEFINED, query |-> <<"w", "e", "s", "t", "l",
        "a", "w">>,
         skipWhitelist |-> UNDEFINED, debug |-> 0],
        [path |-> SEARCH_PATH, ip |-> ClientIP, apiKey |-> ApiKey, query |-> <<"w", "e", "s", "t", "l",
              "a", "w">>,
         skipWhitelist |-> UNDEFINED, debug |-> 1]}

\* objects of the recommender's JSON
Objects ==
  [Westlaw |->
     rawObject(<<"W", "e", "s", "t", "l", "a", "w">>, UNDEFINED, jsonNumber(85), jsonAbsent, <<"C",
         "a", "s", "e", " ", "l", "a", "w", " ", "r", "e", "s", "e", "a", "r", "c", "h">>),
   WestlawEdge |->
     rawObject(UNDEFINED, <<" ", "W", "e", "s", "t", "l", "a", "w", " ", "E", "d", "g", "e", " ">>,
         jsonAbsent, jsonString(<<"8", "5">>), UNDEFINED),
   HeinOnline |->
     rawObject(<<"H", "e", "i", "n", "O", "n", "l", "i", "n", "e">>, UNDEFINED, jsonNumber(70),
         jsonAbsent, <<"J", "o", "u", "r", "n", "a", "l", "s">>),
   HeinOnline150 |->
     rawObject(<<"H", "e", "i", "n", "O", "n", "l", "i", "n", "e">>, UNDEFINED, jsonNumber(150),
         jsonAbsent, <<"J", "o", "u", "r", "n", "a", "l", "s">>),
   FakeDB |->
     rawObject(<<"F", "a", "k", "e", "D", "B">>, UNDEFINED, jsonNumber(90), jsonAbsent, <<"I", "n",
         "v", "e", "n", "t", "e", "d">>),
   WaterLaw |->
     rawObject(<<"W", "a", "t", "e", "r", " ", "L", "a", "w">>, UNDEFINED, jsonNumber(88), jsonAbsent,
         <<"S", "u", "b", "j", "e", "c", "t", " ", "p", "a", "g", "e">>)]

\* the texts queryGemini returns
Texts ==
  {[shape |-> "array", objects |-> <<>>],
   [shape |-> "array", objects |-> <<Objects.Westlaw>>],
   [shape |-> "array", objects |-> <<Objects.FakeDB, Objects.Westlaw>>],
   [shape |-> "array", objects |-> <<Objects.FakeDB>>],
   [shape |-> "fenced", objects |-> <<Objects.HeinOnline150>>],
   [shape |-> "array", objects |-> <<Objects.WaterLaw>>],
   [shape |-> "truncated", objects |-> <<Objects.WestlawEdge, Objects.HeinOnline>>],
   [shape |-> "prose", objects |-> <<>>]}

\* what an awaited call of the recommender client does
outcome(kind, text, status, body, message) ==
  [kind |-> kind, text |-> text, status |-> status, body |-> body, message |-> message]

\* firstWorkingModel: a model, "No working Gemini model found", or a rejected fetch
ModelOutcomes ==
  {outcome("model", NoCall.text, 200, <<>>, MODEL),
   outcome("throw", NoCall.text, 0, <<>>, NO_MODEL_MESSAGE),
   outcome("throw", NoCall.text, 0, <<>>, <<"f", "e", "t", "c", "h", " ", "f", "a", "i", "l", "e", "d">>)}

\* the first fetch of generateContent: a response whose body will hold a text, a non-2xx
\* response, a rejected fetch
GenerateOutcomes ==
  {outcome("text", t, 200, <<>>, <<>>) : t \in Texts}
  \cup {outcome("status", NoCall.text, st, <<>>, <<>>) : st \in {400, 404, 503}}
  \cup {outcome("throw", NoCall.text, 0, <<>>, <<"f", "e", "t", "c", "h", " ", "f", "a", "i", "l", "e",
              "d">>)}

\* what `await resp.json()` throws on a response body that is not JSON
JSON_MESSAGE ==
  <<"U", "n", "e", "x", "p", "e", "c", "t", "e", "d", " ", "t", "o", "k", "e", "n", " ", "<", " ", "i",
    "n", " ", "J", "S", "O", "N", " ", "a", "t", " ", "p", "o", "s", "i", "t", "i", "o", "n", " ", "0">>

\* the fetch of the retry after a 404
RetryOutcomes ==
  {outcome("text", t, 200, <<>>, <<>>) :
     t \in {[shape |-> "array", objects |-> <<Objects.Westlaw>>], [shape |-> "prose", objects |-> <<>>]}}
  \cup {outcome("status", NoCall.text, 404, <<"m", "o", "d", "e", "l", " ", "n", "o", "t", " ", "f", "o",
        "u", "n", "d">>, <<>>),
        outcome("throw", NoCall.text, 0, <<>>, <<"f", "e", "t", "c", "h", " ", "f", "a", "i", "l", "e",
              "d">>)}

(***************************************************************************)
(* The server: one request in hand at a time                               *)
(***************************************************************************)
Init ==
  /\ CATALOG_A = GuidesFile
  /\ CATALOG_B = DatabasesFile
  /\ CATALOG_C = AssetsFile
  /\ CATALOG = indexCatalog(DatabasesFile \o AssetsFile \o GuidesFile)
  /\ WHITELIST = mergeWhitelists(<<WL_A, WL_B, WL_C(AssetsFile)>>)
  /\ exactTokens = exactTokensOf(WHITELIST)
  /\ aliasTokens = aliasTokensOf(WHITELIST)
  /\ GEMINI_API_KEY \in BOOLEAN
  /\ LOCAL_API_KEY \in {UNDEFINED, ApiKey}
  /\ srvIdle
  /\ wlIdle /\ slIdle /\ mgIdle /\ fnIdle

\* queryGemini returned text: the rest of the try block
Complete(text) ==
  \E enriched \in {enrichedOf(req.query, text, req.skipWhitelist = <<"1">>)} :
    res' = IF req.debug # 0 THEN jsonDiagnostics(enriched) ELSE jsonArray(enriched)

\* queryGemini threw an error with this message: the catch block of the handler
Throw(message) ==
  res' = IF req.path = SEARCH_PATH THEN catchSearch(req.query, message)
         ELSE catchWordPress(req.query, message)

\* the promise of queryGemini(prompt, ...) is fulfilled with a text
Fulfil(text) == ai' = [kind |-> "text", text |-> text, message |-> <<>>] /\ pc' = "settled"

\* the promise of queryGemini(prompt, ...) is rejected with an error of this message
Reject(message) ==
  ai' = [kind |-> "error", text |-> NoCall.text, message |-> message] /\ pc' = "settled"

\* as earlyResponse, but without the legal-advice check
earlyResponseNoLegalCheck(r, allowed) ==
  IF ~allowed THEN jsonError(429, <<"T", "o", "o", " ", "m", "a", "n", "y", " ", "r", "e", "q", "u", "e", "s", "t", "s">>)
  ELSE IF isBlank(r.query) THEN jsonError(400, <<"M", "i", "s", "s", "i", "n", "g", " ", "?", "q", "u", "e", "r", "y">>)
  ELSE IF ~GEMINI_API_KEY
    THEN jsonError(500,
         <<"S", "e", "r", "v", "e", "r", " ", "m", "i", "s", "s", "i", "n", "g", " ",
           "G", "E", "M", "I", "N", "I", "_", "A", "P", "I", "_", "K", "E", "Y">>)
  ELSE NoResponse

\* what a search handler answers before it turns to the recommender, given the rate
\* limiter's decision: 429, 400, 500, the legal help list; NoResponse when it goes on
earlyResponse(r, allowed) ==
  IF ~allowed THEN jsonError(429, <<"T", "o", "o", " ", "m", "a", "n", "y", " ", "r", "e", "q", "u", "e", "s", "t", "s">>)
  ELSE IF isBlank(r.query) THEN jsonError(400, <<"M", "i", "s", "s", "i", "n", "g", " ", "?", "q", "u", "e", "r", "y">>)
  ELSE IF ~GEMINI_API_KEY
    THEN jsonError(500,
         <<"S", "e", "r", "v", "e", "r", " ", "m", "i", "s", "s", "i", "n", "g", " ",
           "G", "E", "M", "I", "N", "I", "_", "A", "P", "I", "_", "K", "E", "Y">>)
  ELSE IF isLegalAdviceRequest(r.query) THEN jsonArray(createLegalHelpResponse)
  ELSE NoResponse

\* requireApiKey and a search handler, up to its response or to `await queryGemini(...)`
HandleRequest(r) ==
  /\ pc = "idle"
  /\ req' = r
  /\ ai' = NoCall
  /\ IF ~requireApiKey(r)
       THEN /\ res' = jsonError(401, <<"I", "n", "v", "a", "l", "i", "d", " ", "o", "r", " ", "m", "i",
             "s", "s", "i", "n", "g", " ", "A", "P", "I", " ", "k", "e", "y">>)
            /\ pc' = "done"
            /\ UNCHANGED <<rateLimiter, prompt>>
       ELSE
         LET rateCheck == checkRateLimit(orElse(r.ip, <<"u", "n", "k", "n", "o", "w", "n">>))
             externalDatabases ==
               strict([i \in 1..Len(CATALOG_B) |->
                         [name |-> CATALOG_B[i].name, aliases |-> CATALOG_B[i].aliases]])
         IN  /\ rateLimiter' = rateCheck.limiter
             /\ res' = earlyResponse(r, rateCheck.allowed)
             /\ IF res' # NoResponse
                  THEN pc' = "done" /\ prompt' = prompt
                  ELSE /\ prompt' = shortlistFromCatalog(r.query, externalDatabases, ALLOWLIST_SIZE)
                       /\ pc' = IF RESOLVED_MODEL = NULL THEN "getModel" ELSE "generate"
  /\ UNCHANGED <<now, RESOLVED_MODEL, startupVars, fnVars, catVars, wlVars, slVars, mgVars>>

\* app.get("/search", requireApiKey, ...)
Search == \E r \in Requests : r.path = SEARCH_PATH /\ HandleRequest(r)

\* app.get("/wp-json/ais/v1/search", requireApiKey, ...)
WordPressSearch == \E r \in Requests : r.path = WORDPRESS_PATH /\ HandleRequest(r)

\* `await getModel()` of queryGemini, first or after a 404, when no model is resolved
GetModelReturns ==
  /\ pc \in {"getModel", "retryModel"}
  /\ \E o \in ModelOutcomes :
       IF o.kind = "model"
         THEN /\ RESOLVED_MODEL' = o.message
              /\ pc' = IF pc = "getModel" THEN "generate" ELSE "retry"
              /\ UNCHANGED ai
         ELSE Reject(o.message) /\ UNCHANGED RESOLVED_MODEL
  /\ UNCHANGED <<rateLimiter, now, req, prompt, res, startupVars, fnVars, catVars, wlVars, slVars, mgVars>>

\* the timer of `setTimeout(() => controller.abort(), 45000)` is pending: from its creation,
\* after `await getModel()`, to the clearTimeout that follows the fetch it guards
timeoutPending == pc = "generate"

\* `await fetch(url, { signal })` of queryGemini settles, and clearTimeout(timeoutId)
GenerateReturns ==
  /\ pc = "generate"
  /\ \E o \in GenerateOutcomes :
       IF o.kind = "text"
         THEN /\ ai' = [kind |-> "response", text |-> o.text, message |-> <<>>]
              /\ pc' = "readBody"
              /\ UNCHANGED RESOLVED_MODEL
       ELSE IF o.kind = "status" /\ o.status = 404
         THEN /\ RESOLVED_MODEL' = NULL
              /\ pc' = "retryModel"
              /\ UNCHANGED ai
       ELSE IF o.kind = "status"
         THEN /\ ai' = [kind |-> "failing", text |-> NoCall.text,
                        message |-> httpErrorMessage(o.status, o.body)]
              /\ pc' = "readBody"
              /\ UNCHANGED RESOLVED_MODEL
       ELSE Reject(o.message) /\ UNCHANGED RESOLVED_MODEL
  /\ UNCHANGED <<rateLimiter, now, req, prompt, res, startupVars, fnVars, catVars, wlVars, slVars, mgVars>>

\* the timer fires while the fetch is pending: controller.abort() rejects the fetch with an
\* AbortError, which the catch block of queryGemini turns into the timeout error
TimeoutAborts ==
  /\ timeoutPending
  /\ Reject(TIMEOUT_MESSAGE)
  /\ UNCHANGED <<rateLimiter, now, RESOLVED_MODEL, req, prompt, res,
                 startupVars, fnVars, catVars, wlVars, slVars, mgVars>>

\* `await resp.json()` of a 2xx response, or `await resp.text().catch(() => "")` of another,
\* settles: the timer has been cleared by then
ReadBodyReturns ==
  /\ pc = "readBody"
  /\ \E parsed \in BOOLEAN :
       IF ai.kind = "response" /\ parsed THEN Fulfil(ai.text)
       ELSE IF ai.kind = "response" THEN Reject(JSON_MESSAGE)
       ELSE Reject(ai.message)
  /\ UNCHANGED <<rateLimiter, now, RESOLVED_MODEL, req, prompt, res,
                 startupVars, fnVars, catVars, wlVars, slVars, mgVars>>

\* `await fetch(retryUrl, ...)` of queryGemini and what follows it
RetryReturns ==
  /\ pc = "retry"
  /\ \E o \in RetryOutcomes :
       IF o.kind = "text" THEN Fulfil(o.text)
       ELSE Reject(IF o.kind = "status" THEN httpErrorMessage(o.status, o.body) ELSE o.message)
  /\ UNCHANGED <<rateLimiter, now, RESOLVED_MODEL, req, prompt, res,
                 startupVars, fnVars, catVars, wlVars, slVars, mgVars>>

\* as HandlerResumes, but the handler empties the local guides it has read
HandlerResumesClearsGuides ==
  /\ pc = "settled"
  /\ IF ai.kind = "text" THEN Complete(ai.text) ELSE Throw(ai.message)
  /\ pc' = "done"
  /\ CATALOG_A' = <<>>
  /\ UNCHANGED <<rateLimiter, now, RESOLVED_MODEL, req, prompt, ai, CATALOG_B, CATALOG_C, CATALOG,
                 GEMINI_API_KEY, LOCAL_API_KEY, startupVars, fnVars, wlVars, slVars, mgVars>>

\* the handler resumes after `await queryGemini(prompt, ...)`: the rest of its try block,
\* or its catch block
HandlerResumes ==
  /\ pc = "settled"
  /\ IF ai.kind = "text" THEN Complete(ai.text) ELSE Throw(ai.message)
  /\ pc' = "done"
  /\ UNCHANGED <<rateLimiter, now, RESOLVED_MODEL, req, prompt, ai,
                 startupVars, fnVars, catVars, wlVars, slVars, mgVars>>

\* the response has been sent: the request is over
ResponseSent ==
  /\ pc = "done"
  /\ pc' = "idle" /\ req' = NoRequest /\ prompt' = <<>> /\ ai' = NoCall /\ res' = NoResponse
  /\ UNCHANGED <<rateLimiter, now, RESOLVED_MODEL, startupVars, fnVars, catVars, wlVars, slVars, mgVars>>

\* the routes registered without requireApiKey
TEST_LEGAL_PATH == <<"/", "t", "e", "s", "t", "-", "l", "e", "g", "a", "l">>

HEALTH_PATH == <<"/", "h", "e", "a", "l", "t", "h">>

TEST_AI_PATH == <<"/", "t", "e", "s", "t", "-", "a", "i">>

MODELS_PATH == <<"/", "m", "o", "d", "e", "l", "s">>

LOGS_PATH == <<"/", "l", "o", "g", "s">>

\* requests to them, none with an API key
OpenRequests ==
  {[path |-> p, ip |-> ClientIP, apiKey |-> UNDEFINED, query |-> q, skipWhitelist |-> UNDEFINED,
    debug |-> 0] :
     p \in {TEST_LEGAL_PATH, HEALTH_PATH, TEST_AI_PATH, MODELS_PATH, LOGS_PATH},
     q \in {UNDEFINED, <<"w", "e", "s", "t", "l", "a", "w">>}}

\* res.json({ ... }) of a route that returns no result list
jsonOk == [status |-> 200, body |-> "object", results |-> <<>>, fallback |-> FALSE, error |-> <<>>]

\* app.get("/test-legal" | "/health" | "/test-ai" | "/models" | "/logs", (req, res) => ...):
\* the whole handler; `done` tells whether its fetch or file read succeeded
OpenRoute ==
  /\ pc = "idle"
  /\ \E r \in OpenRequests, resolved \in ModelOutcomes, done \in BOOLEAN :
       LET model == IF RESOLVED_MODEL # NULL THEN RESOLVED_MODEL
                    ELSE IF resolved.kind = "model" THEN resolved.message
                    ELSE NULL
       IN  /\ req' = r
           /\ RESOLVED_MODEL' = IF r.path \in {HEALTH_PATH, TEST_AI_PATH} THEN model
                                ELSE RESOLVED_MODEL
           /\ res' = IF r.path = TEST_LEGAL_PATH
                       THEN IF r.query = UNDEFINED
                              THEN jsonError(400, <<"M", "i", "s", "s", "i", "n", "g", " ", "?", "q", "u", "e", "r", "y">>)
                            ELSE jsonOk
                     ELSE IF r.path = HEALTH_PATH THEN jsonOk
                     ELSE IF r.path = TEST_AI_PATH
                       THEN IF model = NULL THEN jsonError(502, resolved.message)
                            ELSE IF done THEN jsonOk
                            ELSE jsonError(502, <<"f", "e", "t", "c", "h", " ", "f", "a", "i", "l", "e", "d">>)
                     ELSE IF r.path = MODELS_PATH
                       THEN IF done THEN jsonOk
                            ELSE jsonError(502, <<"f", "e", "t", "c", "h", " ", "f", "a", "i", "l", "e", "d">>)
                     ELSE IF done THEN jsonOk
                     ELSE jsonError(500, <<"F", "a", "i", "l", "e", "d", " ", "t", "o", " ", "r", "e", "a", "d", " ", "l", "o", "g", "s">>)
  /\ pc' = "done" /\ ai' = NoCall
  /\ UNCHANGED <<rateLimiter, now, prompt, startupVars, fnVars, catVars, wlVars, slVars, mgVars>>

Next ==
  \/ Search
  \/ WordPressSearch
  \/ GetModelReturns
  \/ GenerateReturns
  \/ TimeoutAborts
  \/ ReadBodyReturns
  \/ RetryReturns
  \/ HandlerResumes
  \/ OpenRoute
  \/ ResponseSent

Spec == Init /\ [][Next]_vars

\* a pending timer fires; the recommender's service owes no answer
SpecLive == Spec /\ WF_vars(TimeoutAborts)

(***************************************************************************)
(* Properties of the search handlers                                       *)
(***************************************************************************)
\* the request in hand asked for skipWhitelist=1
skipWhitelistAsked == req.skipWhitelist = <<"1">>

\* the (name, relevanceScore) pairs of a result list, in order
namesAndScores(items) ==
  strict([i \in 1..Len(items) |-> <<items[i].name, items[i].relevanceScore>>])

\* what the merge step produces from the outputs of the two local scorers alone
localOnly(query) == finalOut(bestMap(searchLocalGuides(query) \o searchLibGuideAssets(query)))

\* the request in hand has been answered after a call of the recommender that gave no
\* usable suggestion: it failed, or nothing it returned got through the filters
noUsableSuggestion ==
  /\ pc = "done"
  /\ \/ ai.kind = "error"
     \/ ai.kind = "text" /\ Len(aiResultsOf(ai.text, skipWhitelistAsked)) = 0

\* C1: when the recommender yields no usable suggestion (the call fails, or its output is
\* empty, unparseable or filtered out entirely), the request is answered with the list the
\* merge step produces from the two local scorers alone
C1_LocalOnlyWithoutSuggestions ==
  noUsableSuggestion =>
    /\ res.status = 200
    /\ namesAndScores(res.results) = namesAndScores(localOnly(req.query))

\* C2: a failure of the recommender (timeout, network error, non-2xx status, malformed
\* response) is never answered with an error: the request completes with a result list
C2_FailureNeverSurfaces ==
  (pc = "done" /\ ai.kind = "error") => res.status = 200

\* the normalized names and aliases of the whitelist and of the three catalogs
knownNames ==
  exactTokens \cup aliasTokens
  \cup UNION {{normalize(c[i].name) : i \in 1..Len(c)}
              \cup UNION {{normalize(c[i].aliases[k]) : k \in 1..Len(c[i].aliases)} :
                            i \in 1..Len(c)} :
              c \in {CATALOG_A, CATALOG_B, CATALOG_C}}

\* a and b have a common substring of 4 characters
sharesSubstring(a, b) ==
  \E i \in 1..(Len(a) - 3) : includes(b, SubSeq(a, i, i + 3))

\* a name with no relation to any whitelist or catalog entry
unrelated(name) ==
  LET n == normalize(name)
  IN  n \notin knownNames /\ \A c \in knownNames : ~sharesSubstring(n, c)

\* the name is the name of an item of the response
inResults(name) == \E k \in 1..Len(res.results) : res.results[k].name = name

\* C3 as stated: whatever the query parameters, an unrelated name returned by the
\* recommender never appears in the final result list
C3_UnrelatedNeverReturned ==
  (pc = "done" /\ ai.kind = "text") =>
    \A c \in Range(cleanedOf(ai.text)) : unrelated(c.name) => ~inResults(c.name)

\* C3, amended: on a request without skipWhitelist=1, an unrelated name returned by the
\* recommender never appears in the final result list; the request is answered 200 and a
\* suggestion of the same response that passes the guide filter and the validator with a
\* score >= 60 is in the list (under its normalized name, with at least its score) unless
\* the list is full
C3_UnrelatedDroppedWithoutSkip ==
  (pc = "done" /\ ai.kind = "text" /\ ~skipWhitelistAsked) =>
    \A cleaned \in {cleanedOf(ai.text)} :
      /\ res.status = 200
      /\ \A c \in Range(cleaned) : unrelated(c.name) => ~inResults(c.name)
      /\ \A c \in Range(aiResultsOf(ai.text, FALSE)) :
           (c.relevanceScore >= MIN_RELEVANCE_SCORE /\ Len(res.results) < MAX_RESULTS) =>
             \E k \in 1..Len(res.results) :
               /\ normalize(res.results[k].name) = normalize(c.name)
               /\ res.results[k].relevanceScore >= c.relevanceScore

\* C3 witness: the recommender returned an unrelated name and a whitelisted one; the
\* response has the whitelisted one and not the unrelated one
C3_Witness ==
  /\ pc = "done" /\ ai.kind = "text" /\ ~skipWhitelistAsked
  /\ \E c \in Range(cleanedOf(ai.text)) : unrelated(c.name) /\ ~inResults(c.name)
  /\ \E c \in Range(cleanedOf(ai.text)) : ~unrelated(c.name) /\ inResults(c.name)

\* C6: every item of every final result list has an integer relevanceScore in 1..100,
\* whatever scores the recommender returned
C6_ScoreRange ==
  (pc = "done" /\ res.status = 200) =>
    \A k \in 1..Len(res.results) : res.results[k].relevanceScore \in 1..100

\* C7: every item of every final result list carries at most one type flag, on every path
C7_AtMostOneTypeFlag ==
  pc = "done" => \A k \in 1..Len(res.results) : flagCount(res.results[k]) <= 1

\* C7 witness: the AI-service-error fallback response, with an item of fallbackRecommend
\* (enriched twice, flagged as an external database) and an item of a local scorer
C7_Witness ==
  /\ pc = "done" /\ res.fallback
  /\ \E k \in 1..Len(res.results) :
       res.results[k].isExternalDatabase /\ flagCount(res.results[k]) = 1
  /\ \E k \in 1..Len(res.results) :
       res.results[k].isLocalGuide /\ flagCount(res.results[k]) = 1

(***************************************************************************)
(* The catalog index on its own: SpecIndex draws the three catalog files   *)
(* and builds the index as line 609 does                                   *)
(***************************************************************************)
\* at most this many items in a drawn catalog file
MaxFileItems == 1

\* the names of the drawn items: the first two have the same normalized name
IXNames == {<<"H", "e", "i", "n">>, <<"H", "E", "I", "N", "!">>, <<"L", "e", "x", "i",
      "s">>}

\* the url and description of a drawn item; one pair is blank
IXFields ==
  {[url |-> <<>>, description |-> <<" ">>],
   [url |-> <<"a", ".", "o", "r", "g">>, description |-> <<"f", "i", "r", "s", "t">>],
   [url |-> <<" ", "b", ".", "o", "r", "g", " ">>, description |-> <<"s", "e", "c", "o", "n", "d">>]}

\* the drawn items: no type flag, one type flag, or isLibGuideAsset with isExternalDatabase
IXItems ==
  LET one == {catItem(n, f.url, f.description, <<>>, <<>>, flag) :
                n \in IXNames, f \in IXFields,
                flag \in {"", "isLocalGuide", "isLibGuideAsset", "isExternalDatabase"}}
  IN  one \cup {[i EXCEPT !.isExternalDatabase = TRUE] : i \in {j \in one : j.isLibGuideAsset}}

\* the state before line 609 has run, for any three catalog files
IXInit ==
  /\ CATALOG_A \in SeqsUpTo(IXItems, MaxFileItems)
  /\ CATALOG_B \in SeqsUpTo(IXItems, MaxFileItems)
  /\ CATALOG_C \in SeqsUpTo(IXItems, MaxFileItems)
  /\ CATALOG = [byName |-> <<>>, aliasToName |-> <<>>]
  /\ GEMINI_API_KEY = FALSE /\ LOCAL_API_KEY = UNDEFINED
  /\ rateLimiter = {} /\ now = 0 /\ RESOLVED_MODEL = NULL
  /\ pc = "startup" /\ req = NoRequest /\ prompt = <<>> /\ ai = NoCall /\ res = NoResponse
  /\ WHITELIST = <<>> /\ exactTokens = {} /\ aliasTokens = {}
  /\ wlIdle /\ slIdle /\ mgIdle /\ fnIdle

\* const CATALOG = indexCatalog([...CATALOG_B, ...CATALOG_C, ...CATALOG_A])
BuildCatalog ==
  /\ pc = "startup"
  /\ CATALOG' = indexCatalog(CATALOG_B \o CATALOG_C \o CATALOG_A)
  /\ pc' = "idle"
  /\ UNCHANGED <<CATALOG_A, CATALOG_B, CATALOG_C, GEMINI_API_KEY, LOCAL_API_KEY, rateLimiter, now,
                 RESOLVED_MODEL, req, prompt, ai, res, startupVars, fnVars, wlVars, slVars, mgVars>>

IXNext == BuildCatalog

SpecIndex == IXInit /\ [][IXNext]_vars

\* the source items in merge order
sourceItems == CATALOG_B \o CATALOG_C \o CATALOG_A

\* the positions of the source items indexed under this key
suppliers(key) ==
  {i \in 1..Len(sourceItems) :
     ~isFalsyName(sourceItems[i].name) /\ normalize(sourceItems[i].name) = key}

indexFlagCount(e) ==
  (IF e.isLocalGuide THEN 1 ELSE 0) + (IF e.isLibGuideAsset THEN 1 ELSE 0)
  + (IF e.isExternalDatabase THEN 1 ELSE 0)

\* C11: once the index is built, every entry carries at most one type flag, and it is the
\* highest-precedence flag (LocalGuide > LibGuideAsset > ExternalDatabase) among those
\* supplied by the items sharing its normalized name
C11_OneFlagByPrecedence ==
  pc = "idle" =>
    \A j \in 1..Len(CATALOG.byName) :
      \A sup \in {suppliers(CATALOG.byName[j].key)} :
        \A e \in {CATALOG.byName[j].val} :
          \A local \in {\E i \in sup : sourceItems[i].isLocalGuide} :
            \A asset \in {\E i \in sup : sourceItems[i].isLibGuideAsset} :
              /\ sup # {}
              /\ indexFlagCount(e) <= 1
              /\ e.isLocalGuide = local
              /\ e.isLibGuideAsset = (~local /\ asset)
              /\ e.isExternalDatabase =
                   (~local /\ ~asset /\ \E i \in sup : sourceItems[i].isExternalDatabase)

\* C11 witness: two differently written names with the same normalized name, supplied as
\* LocalGuide first and as ExternalDatabase later; the one entry ends as LocalGuide
C11_Witness ==
  /\ pc = "idle"
  /\ Len(CATALOG_B) = 1 /\ Len(CATALOG_A) = 1
  /\ CATALOG_B[1].isLocalGuide /\ ~CATALOG_B[1].isExternalDatabase
  /\ CATALOG_A[1].isExternalDatabase /\ ~CATALOG_A[1].isLocalGuide
  /\ normalize(CATALOG_B[1].name) = normalize(CATALOG_A[1].name)
  /\ CATALOG_B[1].name # CATALOG_A[1].name
  /\ Len(CATALOG.byName) = 1
  /\ CATALOG.byName[1].val.isLocalGuide /\ indexFlagCount(CATALOG.byName[1].val) = 1

\* the positions of the suppliers of a key whose field (url or description) is not blank
withField(key, field) == {i \in suppliers(key) : trim(sourceItems[i][field]) # <<>>}

\* C19: when several items with the same normalized name supply a non-empty url
\* (respectively description), the entry keeps the value of the first of them in merge order
C19_FirstNonEmptyKept ==
  pc = "idle" =>
    \A j \in 1..Len(CATALOG.byName) :
      \A field \in {"url", "description"} :
        \A w \in {withField(CATALOG.byName[j].key, field)} :
          w # {} => CATALOG.byName[j].val[field] = trim(sourceItems[SetMin(w)][field])

(***************************************************************************)
(* normalize on its own: SpecNorm draws a string and normalizes it         *)
(***************************************************************************)
\* at most this many characters in a drawn string
MaxNormLen == 4

\* the characters of the drawn strings: letters of both cases, a digit, white space, and
\* symbols and punctuation marks of every kind normalize distinguishes
NormChars == {"a", "B", "1", " ", "\t", "&", "-", "_", "(tm)", "rsquo"}

\* the symbols and punctuation marks among them
NormSymbols == {"&", "-", "_", "(tm)", "rsquo"}

NormInit ==
  /\ fnIn \in SeqsUpTo(NormChars, MaxNormLen) \cup {UNDEFINED}
  /\ fnOut = <<>>
  /\ fnDone = FALSE /\ allowedAt = <<>> /\ noCleanup = {}
  /\ WHITELIST = <<>> /\ exactTokens = {} /\ aliasTokens = {}
  /\ wlIdle /\ slIdle /\ mgIdle /\ catIdle /\ srvIdle

Normalize ==
  /\ ~fnDone
  /\ fnOut' = normalize(fnIn)
  /\ fnDone' = TRUE
  /\ UNCHANGED <<fnIn, allowedAt, noCleanup, startupVars, wlVars, slVars, mgVars, catVars, srvVars>>

NormNext == Normalize

SpecNorm == NormInit /\ [][NormNext]_vars

\* s without its character at position i
without(s, i) == SubSeq(s, 1, i - 1) \o SubSeq(s, i + 1, Len(s))

\* the strings that differ from s in the case of one letter
caseVariants(s) ==
  {[s EXCEPT ![i] = IF s[i] \in LowerSet THEN UpperLetters[CHOOSE k \in 1..26 : LowerLetters[k] = s[i]]
                    ELSE toLowerChar(s[i])] :
     i \in {j \in 1..Len(s) : s[j] \in LowerSet \cup UpperSet}}

\* the strings that differ from s by one mark of Marks that is next to a space or to an end
\* of the string
markVariants(s, Marks) ==
  {without(s, i) :
     i \in {j \in 1..Len(s) :
              /\ s[j] \in Marks
              /\ (j = 1 \/ j = Len(s) \/ s[j - 1] = " " \/ s[j + 1] = " ")}}

\* normalize is total and idempotent: the result is a string of a-z, 0-9 and single spaces,
\* empty for undefined and for the empty string, and normalizing it again changes nothing
totalAndIdempotent ==
  /\ fnOut \in Seq(LowerAlnum \cup {" "})
  /\ (fnIn = UNDEFINED \/ fnIn = <<>>) => fnOut = <<>>
  /\ normalize(fnOut) = fnOut

\* C12 as stated: normalize is total and idempotent, and two inputs that differ only in
\* letter case or in symbol/punctuation marks next to spaces or string ends have one key
C12_Original ==
  (fnDone /\ fnIn # UNDEFINED) =>
    /\ totalAndIdempotent
    /\ \A y \in caseVariants(fnIn) \cup markVariants(fnIn, NormSymbols) : normalize(y) = fnOut

\* C12, amended: normalize is total and idempotent, and two inputs that differ only in
\* letter case or in symbol/punctuation marks other than "&" next to spaces or string ends
\* have one key
C12_IdempotentCaseAndMarks ==
  fnDone =>
    /\ totalAndIdempotent
    /\ fnIn # UNDEFINED =>
         \A y \in caseVariants(fnIn) \cup markVariants(fnIn, NormSymbols \ {"&"}) :
           normalize(y) = fnOut

\* C12 witness: an input with an upper-case letter and a trademark sign at its end has the
\* key of the input in lower case without the sign
C12_Witness ==
  /\ fnDone
  /\ fnIn = <<"B", " ", "a", "(tm)">>
  /\ fnOut = <<"b", " ", "a">>
  /\ normalize(<<"b", " ", "a">>) = fnOut

(***************************************************************************)
(* The waits on the recommender                                            *)
(***************************************************************************)
\* the request in hand waits on the recommender's service: model resolution, the
\* generateContent fetch, the reading of its response body, or the retry after a 404
awaitingRecommender == pc \in {"getModel", "generate", "readBody", "retryModel", "retry"}

\* C13: every wait on the recommender ends, in a response or in a failure, without the
\* recommender's service having to answer: the timeout alone ends it
C13_EveryWaitEnds == awaitingRecommender ~> ~awaitingRecommender

\* the wait on the generateContent fetch, which the timer guards, does end
GuardedFetchEnds == (pc = "generate") ~> (pc # "generate")

(***************************************************************************)
(* What request handling leaves alone                                      *)
(***************************************************************************)
\* everything built at startup: the three local catalogs, the catalog index (name map and
\* alias map), the whitelist and its two lookup sets
builtAtStartup == <<CATALOG_A, CATALOG_B, CATALOG_C, CATALOG, WHITELIST, exactTokens, aliasTokens>>

legalAdviceInHand ==
  /\ req # NoRequest /\ requireApiKey(req) /\ res.status # 429
  /\ isLegalAdviceRequest(req.query)

\* the request in hand has been answered without any call of the recommender
answeredWithoutRecommender == pc = "done" /\ ai = NoCall

\* the fixed list of legal aid referrals, every item flagged isLegalHelp and nothing else
referralsSent ==
  /\ res = jsonArray(createLegalHelpResponse)
  /\ Len(res.results) > 0
  /\ \A k \in 1..Len(res.results) : res.results[k].isLegalHelp /\ flagCount(res.results[k]) = 1

\* C15 as stated: every legal-advice request that passed the key check and the rate limiter
\* is answered with the referral list, and the recommender is not called
C15_Original == legalAdviceInHand => (answeredWithoutRecommender /\ referralsSent)

\* C15: the recommender is never called for a legal-advice request that passed the key check
\* and the rate limiter; it is answered with the referral list when the server has its
\* GEMINI_API_KEY, and with status 500 when it has not
C15_ReferralsWhenConfigured ==
  legalAdviceInHand =>
    /\ answeredWithoutRecommender
    /\ IF GEMINI_API_KEY THEN referralsSent
       ELSE res = jsonError(500, <<"S", "e", "r", "v", "e", "r", " ", "m", "i", "s", "s", "i", "n", "g", " ",
         "G", "E", "M", "I", "N", "I", "_", "A", "P", "I", "_", "K", "E", "Y">>)

\* a legal-advice request has been answered with the referral list
C15_Witness == legalAdviceInHand /\ pc = "done" /\ GEMINI_API_KEY /\ referralsSent

(***************************************************************************)
(* The rate limiter on its own: SpecRate lets time pass between the calls  *)
(***************************************************************************)
\* the clock advances by this much (ms) at a time
TickMs == 45000

\* the clock stops here
MaxNow == 135000

\* at most this many calls of checkRateLimit in a behaviour
MaxCalls == 12

\* the addresses the calls come from
RateIPs == {ClientIP, <<"u", "n", "k", "n", "o", "w", "n">>}

RateInit ==
  /\ WHITELIST = <<>> /\ exactTokens = {} /\ aliasTokens = {}
  /\ wlIdle /\ slIdle /\ mgIdle /\ catIdle /\ srvIdle /\ fnIdle

\* const rateCheck = checkRateLimit(clientIP), as either search handler calls it
CheckRateLimit ==
  /\ BagCardinality(allowedAt) < MaxCalls
  /\ \E ip \in RateIPs :
       /\ rateLimiter' = checkRateLimit(ip).limiter
       /\ allowedAt' = IF checkRateLimit(ip).allowed
                         THEN allowedAt (+) SetToBag({[ip |-> ip, time |-> now]})
                       ELSE allowedAt
       /\ noCleanup' = checkRateLimitIn(noCleanup, ip).limiter
  /\ UNCHANGED <<now, RESOLVED_MODEL, pc, req, prompt, ai, res, fnIn, fnOut, fnDone,
                 startupVars, wlVars, slVars, mgVars, catVars>>

\* Date.now() has advanced
Tick ==
  /\ now + TickMs <= MaxNow
  /\ now' = now + TickMs
  /\ UNCHANGED <<rateLimiter, RESOLVED_MODEL, pc, req, prompt, ai, res, fnVars,
                 startupVars, wlVars, slVars, mgVars, catVars>>

\* as Cleanup, but every entry whose window has ended is deleted, and so is every entry
\* that has reached MAX_REQUESTS_PER_WINDOW
CleanupFull ==
  /\ \E e \in rateLimiter : now > e.resetTime \/ e.count >= MAX_REQUESTS_PER_WINDOW
  /\ rateLimiter' = {e \in rateLimiter : ~(now > e.resetTime \/ e.count >= MAX_REQUESTS_PER_WINDOW)}
  /\ UNCHANGED <<now, RESOLVED_MODEL, pc, req, prompt, ai, res, fnVars,
                 startupVars, wlVars, slVars, mgVars, catVars>>

\* the setInterval callback: entries whose window ended more than a window ago are deleted
Cleanup ==
  /\ \E e \in rateLimiter : now > e.resetTime + RATE_LIMIT_WINDOW
  /\ rateLimiter' = {e \in rateLimiter : ~(now > e.resetTime + RATE_LIMIT_WINDOW)}
  /\ UNCHANGED <<now, RESOLVED_MODEL, pc, req, prompt, ai, res, fnVars,
                 startupVars, wlVars, slVars, mgVars, catVars>>

RateNext ==
  \/ CheckRateLimit
  \/ Tick
  \/ Cleanup

SpecRate == RateInit /\ [][RateNext]_vars

\* the number of calls in allowedAt that satisfy Test
countAllowed(Test(_)) ==
  BagCardinality([c \in {x \in BagToSet(allowedAt) : Test(x)} |-> allowedAt[c]])

\* C16: sliding window: in every interval of RATE_LIMIT_WINDOW ms, at most
\* MAX_REQUESTS_PER_WINDOW calls from one address are allowed (it is enough to look at the
\* intervals that start at an allowed call)
C16_SlidingWindow ==
  \A first \in BagToSet(allowedAt) :
    LET inWindow(c) == /\ c.ip = first.ip
                       /\ first.time <= c.time /\ c.time < first.time + RATE_LIMIT_WINDOW
    IN  countAllowed(inWindow) <= MAX_REQUESTS_PER_WINDOW

\* what the limiter does guarantee: between two resets of an address's window, at most
\* MAX_REQUESTS_PER_WINDOW calls from it are allowed
FixedWindow ==
  \A e \in rateLimiter :
    LET sinceReset(c) == c.ip = e.ip /\ c.time >= e.resetTime - RATE_LIMIT_WINDOW
    IN  e.count <= MAX_REQUESTS_PER_WINDOW /\ e.count = countAllowed(sinceReset)

(***************************************************************************)
(* The API key                                                             *)
(***************************************************************************)
\* the server has an API key configured and the request in hand does not carry it
withoutConfiguredKey ==
  /\ req # NoRequest
  /\ ~(LOCAL_API_KEY = UNDEFINED \/ LOCAL_API_KEY = <<>>)
  /\ req.apiKey # LOCAL_API_KEY

\* C17: on every endpoint a request without the configured key is answered 401, at once and
\* without a call of the recommender
C17_KeyRequiredEverywhere ==
  withoutConfiguredKey => (pc = "done" /\ res.status = 401 /\ ai = NoCall)

\* what the code does guarantee: on the two search endpoints a request that requireApiKey
\* does not let through is answered 401, at once and without a call of the recommender
KeyCheckedOnSearch ==
  (req.path \in {SEARCH_PATH, WORDPRESS_PATH} /\ ~requireApiKey(req))
    => (pc = "done" /\ res.status = 401 /\ ai = NoCall)

(***************************************************************************)
(* The two search endpoints side by side                                   *)
(***************************************************************************)
\* two responses with the same status and the same result list
sameAnswer(a, b) == a.status = b.status /\ a.results = b.results

\* the request in hand, on a search endpoint, has been answered after this outcome of the
\* call of the recommender
answeredAfter(kind) ==
  pc = "done" /\ req.path \in {SEARCH_PATH, WORDPRESS_PATH} /\ ai.kind = kind

\* C18: after a failure of the recommender both endpoints give the same answer: the answer
\* sent is the one the catch block of /search gives and the one the catch block of
\* /wp-json/ais/v1/search gives
C18_SameAnswerOnFailure ==
  answeredAfter("error") =>
    /\ sameAnswer(res, catchSearch(req.query, ai.message))
    /\ sameAnswer(res, catchWordPress(req.query, ai.message))

\* what the code does guarantee: when the recommender returns a text, the answer is the same
\* function of the query, the text and skipWhitelist on both endpoints
SameAnswerOnSuccess ==
  answeredAfter("text") =>
    res.status = 200 /\ res.results = enrichedOf(req.query, ai.text, skipWhitelistAsked)

(***************************************************************************)
(* Enrichment of one result on its own: SpecEnrich draws a result and the  *)
(* catalog entry found for it                                              *)
(***************************************************************************)
\* the type flags a drawn result carries: none, or one of the four
EnrichFlags ==
  {[isLocalGuide |-> f = 1, isLibGuideAsset |-> f = 2, isExternalDatabase |-> f = 3,
    isLegalHelp |-> f = 4] : f \in 0..4}

\* the drawn results
EnrichItems ==
  {mkItem(n, 90, <<"r", "e", "a", "s", "o", "n">>, <<>>, <<>>, flags) :
     n \in {<<"W", "a", "t", "e", "r", " ", "L", "a", "w">>, <<"W", "e", "s", "t", "l", "a", "w">>}, flags \in EnrichFlags}

\* the drawn values of lookupCatalog(r.name) || {}: nothing found, or an entry of the index
\* with at most one type flag
EnrichEntries ==
  {NoEntry}
  \cup {[NoEntry EXCEPT !.name = n, !.url = url, !.description = d, !.isLocalGuide = f = 1,
                        !.isLibGuideAsset = f = 2, !.isExternalDatabase = f = 3] :
          n \in {<<"W", "a", "t", "e", "r", " ", "L", "a", "w">>, <<"W", "e", "s", "t", "l", "a", "w">>},
          url \in {<<>>, <<"a", ".", "o", "r", "g">>}, d \in {<<>>, <<"f", "i", "r", "s", "t">>}, f \in 0..3}

EnrichInit ==
  /\ fnIn \in [r : EnrichItems, info : EnrichEntries]
  /\ fnOut = <<>>
  /\ fnDone = FALSE /\ allowedAt = <<>> /\ noCleanup = {}
  /\ WHITELIST = <<>> /\ exactTokens = {} /\ aliasTokens = {}
  /\ wlIdle /\ slIdle /\ mgIdle /\ catIdle /\ srvIdle

\* the callback of items.map in enrichResults, applied to the drawn result
Enrich ==
  /\ ~fnDone
  /\ fnOut' = enrichOne(fnIn.r, fnIn.info)
  /\ fnDone' = TRUE
  /\ UNCHANGED <<fnIn, allowedAt, noCleanup, startupVars, wlVars, slVars, mgVars, catVars, srvVars>>

EnrichNext == Enrich

SpecEnrich == EnrichInit /\ [][EnrichNext]_vars

\* the type flags of a result, and those of a catalog entry, in one order
flagsOf(r) == <<r.isLocalGuide, r.isLibGuideAsset, r.isExternalDatabase, r.isLegalHelp>>

tagOf(info) == <<info.isLocalGuide, info.isLibGuideAsset, info.isExternalDatabase, FALSE>>

Untagged == <<FALSE, FALSE, FALSE, FALSE>>

ExternalDatabase == <<FALSE, FALSE, TRUE, FALSE>>

\* C20: a flag on the incoming result is kept and none is added; an unflagged result gets
\* the type tag of the entry found for it, ExternalDatabase if that entry has no tag, and no
\* flag if no entry is found
C20_TypeResolution ==
  fnDone =>
    flagsOf(fnOut) = IF flagsOf(fnIn.r) # Untagged THEN flagsOf(fnIn.r)
                     ELSE IF fnIn.info = NoEntry THEN Untagged
                     ELSE IF tagOf(fnIn.info) # Untagged THEN tagOf(fnIn.info)
                     ELSE ExternalDatabase

\* what enrichResults does: a result flagged isLocalGuide or isLibGuideAsset keeps its
\* flags; a result without these two gets isLibGuideAsset added if the entry found carries
\* it; otherwise an unflagged result gets isExternalDatabase for any entry found, whatever
\* the entry's own tag; a result for which nothing is found keeps its flags
EnrichmentAsCoded ==
  fnDone =>
    LET r == fnIn.r
        info == fnIn.info
    IN  flagsOf(fnOut) =
          IF r.isLocalGuide \/ r.isLibGuideAsset \/ info = NoEntry THEN flagsOf(r)
          ELSE IF info.isLibGuideAsset THEN [flagsOf(r) EXCEPT ![2] = TRUE]
          ELSE IF r.isLegalHelp THEN flagsOf(r)
          ELSE ExternalDatabase

(***************************************************************************)
(* Catalog lookup on its own: SpecLookup indexes a drawn catalog and looks *)
(* a drawn name up in it                                                   *)
(***************************************************************************)
\* at most this many items in the drawn catalog
MaxLookupItems == 2

\* the drawn items: a name within another, a two-word name, a name of punctuation only;
\* with no alias, with another item's name as alias, with an alias of their own
LookupItems ==
  {catItem(n, <<>>, <<>>, a, <<>>, "isExternalDatabase") :
     n \in {<<"H", "e", "i", "n">>, <<"H", "e", "i", "n", "O", "n", "l", "i", "n", "e">>, <<"W", "a", "t", "e", "r", " ", "L", "a", "w">>, <<"!">>},
     a \in {<<>>, <<<<"H", "e", "i", "n">>>>, <<<<"H", "2", "O">>>>}}

\* the names looked up: exact in another case, an alias, a longer name, a name that shares a
\* word, punctuation only, and a name that matches nothing
LookupNames == {<<"h", "e", "i", "n">>, <<"H", "2", "O">>, <<"H", "e", "i", "n", "O", "n", "l", "i", "n", "e", " ", "L", "a", "w">>, <<"L", "a", "w", " ", "o", "f", " ", "W", "a", "t", "e", "r">>, <<"?">>, <<"L", "e", "x", "i", "s">>}

LookupInit ==
  /\ CATALOG_A = <<>> /\ CATALOG_C = <<>>
  /\ CATALOG_B \in SeqsUpTo(LookupItems, MaxLookupItems)
  /\ CATALOG = indexCatalog(CATALOG_B \o CATALOG_C \o CATALOG_A)
  /\ GEMINI_API_KEY = FALSE /\ LOCAL_API_KEY = UNDEFINED
  /\ fnIn \in LookupNames
  /\ fnOut = <<>>
  /\ fnDone = FALSE /\ allowedAt = <<>> /\ noCleanup = {}
  /\ WHITELIST = <<>> /\ exactTokens = {} /\ aliasTokens = {}
  /\ wlIdle /\ slIdle /\ mgIdle /\ srvIdle

\* const info = lookupCatalog(r.name) || {}
Lookup ==
  /\ ~fnDone
  /\ fnOut' = lookupCatalog(fnIn)
  /\ fnDone' = TRUE
  /\ UNCHANGED <<fnIn, allowedAt, noCleanup, startupVars, wlVars, slVars, mgVars, catVars, srvVars>>

LookupNext == Lookup

SpecLookup == LookupInit /\ [][LookupNext]_vars

\* the positions of the index, in order, whose key fuzzily matches the normalized input n:
\* containment either way with both of length >= 4, or a shared token of length >= 4
fuzzyHits(n) ==
  {j \in 1..Len(CATALOG.byName) :
     LET key == CATALOG.byName[j].key
     IN  \/ Len(key) >= 4 /\ Len(n) >= 4 /\ (includes(n, key) \/ includes(key, n))
         \/ \E w \in tokens(key) : Len(w) >= 4 /\ w \in tokens(n)}

\* the entry found by the fuzzy tier for n, or NoEntry
fuzzyTier(n) ==
  IF fuzzyHits(n) = {} THEN NoEntry ELSE CATALOG.byName[SetMin(fuzzyHits(n))].val

\* the key that the first two tiers resolve n to: n itself if it is a name of the index,
\* else what the alias map holds for it; <<>> if neither
resolvedKey(n) ==
  IF mapHas(CATALOG.byName, n) THEN n
  ELSE IF mapHas(CATALOG.aliasToName, n) THEN mapGet(CATALOG.aliasToName, n)
  ELSE <<>>

\* C21 as stated: the entry named like the input, else the entry the alias map points to,
\* else the first fuzzy match, else not found
C21_Original ==
  fnDone =>
    \E n \in {normalize(fnIn)} :
      fnOut = IF mapHas(CATALOG.byName, n) THEN mapGet(CATALOG.byName, n)
              ELSE IF mapHas(CATALOG.aliasToName, n)
                THEN mapGet(CATALOG.byName, mapGet(CATALOG.aliasToName, n))
              ELSE fuzzyTier(n)

\* C21: the same three tiers, the first two only for a key that is not empty: an input or an
\* alias target that normalizes to the empty string is passed on to the fuzzy tier, which
\* never returns an entry with an empty key
C21_ThreeTiers ==
  fnDone =>
    \E n \in {normalize(fnIn)} :
      fnOut = IF resolvedKey(n) # <<>> THEN mapGet(CATALOG.byName, resolvedKey(n))
              ELSE fuzzyTier(n)

\* the input is the name of the second entry, an alias of the first, and contained in the
\* first entry's key: the second entry is returned
C21_Witness ==
  /\ fnDone /\ fnIn = <<"h", "e", "i", "n">>
  /\ Len(CATALOG.byName) = 2
  /\ CATALOG.byName[1].key = <<"h", "e", "i", "n", "o", "n", "l", "i", "n", "e">> /\ CATALOG.byName[2].key = <<"h", "e", "i", "n">>
  /\ mapHas(CATALOG.aliasToName, <<"h", "e", "i", "n">>)
  /\ fnOut = CATALOG.byName[2].val

(***************************************************************************)
(* The lexical score and the shortlist (SpecShort)                         *)
(***************************************************************************)
\* the score as the specification words it: one per distinct token of the normalized query
\* that is a token of the normalized haystack, and 2 if the haystack contains the whole
\* normalized query
tokenOverlapScore(q, item) ==
  Cardinality({t \in tokens(q) : t \in tokens(normalize(nameAndAliases(item)))})
  + (IF includes(normalize(nameAndAliases(item)), q) THEN 2 ELSE 0)

\* the {name, score} of the items at the positions in `included`, in catalog order
scoredAt(q, catalog, included) ==
  PickSeq(strict([i \in 1..Len(catalog) |->
                    [name |-> catalog[i].name, score |-> tokenOverlapScore(q, catalog[i])]]),
          included)

\* the names of a list of {name, score}
namesIn(scored) == {scored[k].name : k \in 1..Len(scored)}

\* C22 as stated: the scored list holds exactly the candidates whose score is > 0, each with
\* that score
C22_Original ==
  slDone =>
    scoredOf(normalize(slIn.query), slIn.catalog)
      = scoredAt(normalize(slIn.query), slIn.catalog,
                 {i \in 1..Len(slIn.catalog) :
                    tokenOverlapScore(normalize(slIn.query), slIn.catalog[i]) > 0})

\* C22: the scored list holds exactly the candidates that have a name and whose score is
\* > 0, each with that score (a natural number); a candidate without a name is never in
\* it; and when the list is not empty the shortlist is drawn from it
C22_ScoreOfNamedCandidates ==
  slDone =>
    \E scored \in {scoredOf(normalize(slIn.query), slIn.catalog)} :
      /\ scored = scoredAt(normalize(slIn.query), slIn.catalog,
                           {i \in 1..Len(slIn.catalog) :
                              /\ ~isFalsyName(slIn.catalog[i].name)
                              /\ tokenOverlapScore(normalize(slIn.query), slIn.catalog[i]) > 0})
      /\ \A k \in 1..Len(scored) : scored[k].score \in Nat \ {0}
      /\ Len(scored) > 0 => Range(slOut) \subseteq namesIn(scored)

\* the query "law" against HeinOnline (nothing), ABA with the alias law (a token and the
\* whole query) and Westlaw (the query within a word): scores 3 and 2, HeinOnline left out
C22_Witness ==
  /\ slDone /\ slIn.query = Str.law
  /\ slIn.catalog = <<WLEntry(Str.HeinOnline, <<>>),
                      WLEntry(Str.ABA, <<Str.law>>),
                      WLEntry(Str.Westlaw, <<Str.WestlawEdgeTM>>)>>
  /\ scoredOf(normalize(slIn.query), slIn.catalog)
       = <<[name |-> Str.ABA, score |-> 3], [name |-> Str.Westlaw, score |-> 2]>>
  /\ slIn.cap = 2 /\ slOut = <<Str.ABA, Str.Westlaw>>

\* the alphabetical fallback: the first cap names of the whole subset in ascending order
alphabeticalFallback(catalog, cap) ==
  slice0(sortAlphabetically(strict([i \in 1..Len(catalog) |-> catalog[i].name])), cap)

\* C23: for a query that normalizes to the empty string no candidate is in the scored list,
\* and the shortlist is the alphabetical fallback
C23_EmptyQueryScoresNothing ==
  (slDone /\ normalize(slIn.query) = <<>>) =>
    /\ Len(scoredOf(normalize(slIn.query), slIn.catalog)) = 0
    /\ slOut = alphabeticalFallback(slIn.catalog, slIn.cap)

\* what the code does for such a query: every candidate with a name is in the scored list,
\* with the score 2 of the substring boost
EmptyQueryScoresTwo ==
  (slDone /\ normalize(slIn.query) = <<>>) =>
    scoredOf(normalize(slIn.query), slIn.catalog)
      = PickSeq(strict([i \in 1..Len(slIn.catalog) |->
                          [name |-> slIn.catalog[i].name, score |-> 2]]),
                {i \in 1..Len(slIn.catalog) : ~isFalsyName(slIn.catalog[i].name)})

\* a sorts before b, or equal to it, in the order of the fallback: localeCompare, with
\* undefined after every name
namesInOrder(a, b) == b = UNDEFINED \/ (a # UNDEFINED /\ localeLessEq(a, b))

\* how often x occurs in the sequence s
occurrences(s, x) == Cardinality({k \in 1..Len(s) : s[k] = x})

\* out is the first cap names of the catalog in ascending order: as long as cap and the
\* catalog allow, ascending, made of names of the catalog, and no name left out sorts
\* before one that is in
isFirstNamesOf(out, catalog, cap) ==
  \E names \in {strict([i \in 1..Len(catalog) |-> catalog[i].name])} :
    /\ Len(out) = SetMin({cap, Len(catalog)})
    /\ \A k \in 1..(Len(out) - 1) : namesInOrder(out[k], out[k + 1])
    /\ \A x \in Range(out) : occurrences(out, x) <= occurrences(names, x)
    /\ \A x \in Range(names) :
         occurrences(out, x) < occurrences(names, x) => \A k \in 1..Len(out) : namesInOrder(out[k], x)

\* every name of the shortlist is the name of a candidate whose score is > 0
onlyScoringNames ==
  \A k \in 1..Len(slOut) :
    \E i \in 1..Len(slIn.catalog) :
      /\ slIn.catalog[i].name = slOut[k]
      /\ tokenOverlapScore(normalize(slIn.query), slIn.catalog[i]) > 0

scoring(q, catalog) ==
  {i \in 1..Len(catalog) : ~isFalsyName(catalog[i].name) /\ tokenOverlapScore(q, catalog[i]) > 0}

\* the candidates that score for q under the normalized name of n
scoringAs(q, catalog, n) ==
  {i \in scoring(q, catalog) : normalize(catalog[i].name) = normalize(n)}

\* the highest score for q under the normalized name of n, 0 if none
scoreOfName(q, catalog, n) ==
  IF scoringAs(q, catalog, n) = {} THEN 0
  ELSE CHOOSE s \in {tokenOverlapScore(q, catalog[i]) : i \in scoringAs(q, catalog, n)} :
         \A i \in scoringAs(q, catalog, n) : tokenOverlapScore(q, catalog[i]) <= s

\* out lists the best-scoring names for q: at most cap, one per normalized name, by
\* descending score, each the first entry with the highest score of its normalized name,
\* and nothing left out scores higher than a name that is in
isBestByScore(out, q, catalog, cap) ==
  /\ Len(out) <= cap
  /\ \A k \in 1..Len(out) : scoringAs(q, catalog, out[k]) # {}
  /\ \A k, l \in 1..Len(out) : k # l => normalize(out[k]) # normalize(out[l])
  /\ \A k \in 1..(Len(out) - 1) :
       scoreOfName(q, catalog, out[k]) >= scoreOfName(q, catalog, out[k + 1])
  /\ \A k \in 1..Len(out) :
       out[k] = catalog[SetMin({i \in scoringAs(q, catalog, out[k]) :
                  tokenOverlapScore(q, catalog[i]) = scoreOfName(q, catalog, out[k])})].name
  /\ \A i \in scoring(q, catalog) :
       \/ \E k \in 1..Len(out) : normalize(out[k]) = normalize(catalog[i].name)
       \/ /\ Len(out) = cap
          /\ \A k \in 1..Len(out) :
               scoreOfName(q, catalog, out[k]) >= tokenOverlapScore(q, catalog[i])

\* C25 as stated: whenever a candidate has a score > 0, the shortlist is the best names by
\* score
C25_Original ==
  (slDone /\ \E i \in 1..Len(slIn.catalog) :
               tokenOverlapScore(normalize(slIn.query), slIn.catalog[i]) > 0)
    => isBestByScore(slOut, normalize(slIn.query), slIn.catalog, slIn.cap)

\* C25: whenever a candidate that has a name has a score > 0, the shortlist is at most cap
\* names of the catalog, one per normalized name, by descending score, each normalized name
\* represented by its highest-scoring entry (the first on ties), and no name left out scores
\* higher than one that is in
C25_BestByScore ==
  (slDone /\ scoring(normalize(slIn.query), slIn.catalog) # {})
    => isBestByScore(slOut, normalize(slIn.query), slIn.catalog, slIn.cap)

\* query "law": "Westlaw" scores 2 and "WESTLAW" 3 under one normalized name, "ABA" scores 3;
\* the shortlist holds "WESTLAW" for the first and "ABA" after it
C25_Witness ==
  /\ slDone /\ slIn.query = Str.law /\ slIn.cap = 2
  /\ slIn.catalog = <<WLEntry(Str.Westlaw, <<Str.WestlawEdgeTM>>),
                      WLEntry(Str.WESTLAW, <<Str.West, Str.law>>),
                      WLEntry(Str.ABA, <<Str.law>>)>>
  /\ slOut = <<Str.WESTLAW, Str.ABA>>

(***************************************************************************)
(* The local relevance scorers on their own: SpecLocal draws the guides or *)
(* the assets file and a query, and calls both scorers                     *)
(***************************************************************************)
\* at most this many drawn entries between the fixed ones
MaxLocalItems == 2

\* the drawn entries; the drawn list is both the aliases of a guide and the subjects of an
\* asset, and the entry "" has no name
LocalItems ==
  {catItem(<<"W", "a", "t", "e", "r", " ", "L", "a", "w">>, <<>>, <<>>, <<>>, <<>>, ""),
   catItem(<<"W", "a", "t", "e", "r", " ", "L", "a", "w">>, <<>>, <<>>, <<<<"w", "a", "t", "e", "r">>, <<"l", "a", "w">>>>, <<<<"w", "a", "t", "e", "r">>, <<"l", "a", "w">>>>, ""),
   catItem(<<"A", "f", "g", "h", "a", "n", "i", "s", "t", "a", "n", " ", "W", "a", "t", "e", "r", " ", "L", "a", "w">>, <<>>, <<>>, <<>>, <<>>, ""),
   catItem(<<"C", "o", "n", "t", "r", "a", "c", "t", " ", "L", "a", "w">>, <<>>, <<>>, <<>>, <<>>, ""),
   catItem(<<"C", "o", "n", "t", "r", "a", "c", "t", " ", "L", "a", "w">>, <<"a", ".", "o", "r", "g">>, <<"U", "t", "a", "h", " ", "c", "o", "n", "t", "r", "a", "c", "t", " ", "l", "a", "w", " ", "g", "u", "i", "d", "e">>, <<>>, <<>>, ""),
   catItem(<<"T", "a", "x">>, <<>>, <<>>, <<>>, <<>>, ""),
   catItem(<<"T", "a", "x">>, <<>>, <<>>, <<<<"w", "a", "t", "e", "r">>>>, <<<<"w", "a", "t", "e", "r">>>>, ""),
   catItem(<<"T", "a", "x">>, <<>>, <<>>, <<<<"w", "a", "t", "e", "r">>, <<"l", "a", "w">>>>, <<<<"w", "a", "t", "e", "r">>, <<"l", "a", "w">>>>, ""),
   catItem(<<>>, <<>>, <<>>, <<<<"w", "a", "t", "e", "r">>>>, <<<<"w", "a", "t", "e", "r">>>>, "")}

\* three entries that stand before or after the drawn ones
LocalPad ==
  <<catItem(<<"W", "a", "t", "e", "r", " ", "R", "i", "g", "h", "t", "s">>, <<>>, <<>>, <<>>, <<>>, ""),
    catItem(<<"L", "a", "w", " ", "R", "e", "v", "i", "e", "w", "s">>, <<>>, <<>>, <<>>, <<>>, ""),
    catItem(<<"W", "a", "t", "e", "r", " ", "L", "a", "w", " ", "F", "o", "r", "m", "s">>, <<>>, <<>>, <<>>, <<>>, "")>>

LocalQueries == {<<"w", "a", "t", "e", "r", " ", "l", "a", "w">>, <<"W", "a", "t", "e", "r">>, <<"U", "t", "a", "h", " ", "c", "o", "n", "t", "r", "a", "c", "t", " ", "l", "a", "w">>, <<"t", "a", "x">>, <<"A", "f", "g", "h", "a", "n", "i", "s", "t", "a", "n">>}

LocalInit ==
  /\ fnIn \in LocalQueries
  /\ fnOut = <<>>
  /\ fnDone = FALSE /\ allowedAt = <<>> /\ noCleanup = {}
  /\ \E file \in {pre \o mid \o post : pre \in {<<>>, LocalPad}, post \in {<<>>, LocalPad},
                                       mid \in SeqsUpTo(LocalItems, MaxLocalItems)} :
       \/ CATALOG_A = file /\ CATALOG_C = <<>>
       \/ CATALOG_A = <<>> /\ CATALOG_C = file
  /\ CATALOG_B = <<>>
  /\ CATALOG = indexCatalog(CATALOG_B \o CATALOG_C \o CATALOG_A)
  /\ GEMINI_API_KEY = FALSE /\ LOCAL_API_KEY = UNDEFINED
  /\ WHITELIST = <<>> /\ exactTokens = {} /\ aliasTokens = {}
  /\ wlIdle /\ slIdle /\ mgIdle /\ srvIdle

\* searchLocalGuides(query) and searchLibGuideAssets(query), as the handlers call them
LocalSearch ==
  /\ ~fnDone
  /\ fnOut' = [guides |-> searchLocalGuides(fnIn), assets |-> searchLibGuideAssets(fnIn)]
  /\ fnDone' = TRUE
  /\ UNCHANGED <<fnIn, allowedAt, noCleanup, startupVars, wlVars, slVars, mgVars, catVars, srvVars>>

LocalNext == LocalSearch

SpecLocal == LocalInit /\ [][LocalNext]_vars

\* `score` of each guide when the loop reaches `if (score > 0)`; an entry without a name
\* is skipped and has none
guideScores(query) ==
  strict([i \in 1..Len(CATALOG_A) |->
    IF isFalsyName(CATALOG_A[i].name) THEN 0
    ELSE localScore(normalize(query), CATALOG_A[i].name, CATALOG_A[i].description,
                    CATALOG_A[i].aliases, 20)])

\* `score` of each asset when the loop reaches `if (score > 0)`
assetScores(query) ==
  strict([i \in 1..Len(CATALOG_C) |->
    IF isFalsyName(CATALOG_C[i].name) THEN 0
    ELSE localScore(normalize(query), CATALOG_C[i].name, CATALOG_C[i].description,
                    CATALOG_C[i].subjects, 15)])

\* the entries of the file with a score > 0, and the relevance of each
localHits(raw) == {i \in 1..Len(raw) : raw[i] > 0}

relevanceOf(raw, base, ceiling) ==
  strict([i \in 1..Len(raw) |-> SetMin({ceiling, base + 3 * raw[i]})])

\* the place of entry i in the scorer's order: after the entries of higher relevance and
\* after the earlier entries of the same relevance
placeOf(i, hits, rel) ==
  1 + Cardinality({j \in hits : rel[j] > rel[i] \/ (rel[j] = rel[i] /\ j < i)})

\* out is the entries with a score > 0 on the first LOCAL_RESULT_CAP places, place by
\* place, each with its own name and relevance
isTopOf(out, file, hits, rel) ==
  /\ Len(out) = SetMin({LOCAL_RESULT_CAP, Cardinality(hits)})
  /\ \A i \in hits :
       placeOf(i, hits, rel) <= LOCAL_RESULT_CAP =>
         /\ out[placeOf(i, hits, rel)].name = file[i].name
         /\ out[placeOf(i, hits, rel)].relevanceScore = rel[i]
         /\ out[placeOf(i, hits, rel)].url = file[i].url

matchingExtras(query, extras) ==
  Cardinality({k \in 1..Len(extras) :
    \/ includes(normalize(extras[k]), normalize(query))
    \/ includes(normalize(query), normalize(extras[k]))})

\* what is added to `score` beyond a single alias/subject bonus of 5
repeatedBonus(query, extras) ==
  IF matchingExtras(query, extras) > 1 THEN 5 * (matchingExtras(query, extras) - 1) ELSE 0

\* C27: the alias/subject bonus is in the relevance of a returned entry once, +5, however
\* many of its aliases or subjects match the query
C27_BonusOnce ==
  fnDone =>
    /\ \A k \in 1..Len(fnOut.guides) :
         \E i \in localHits(guideScores(fnIn)) :
           /\ placeOf(i, localHits(guideScores(fnIn)), relevanceOf(guideScores(fnIn), 60, 98)) = k
           /\ fnOut.guides[k].relevanceScore =
                SetMin({98, 60 + 3 * (guideScores(fnIn)[i]
                                      - repeatedBonus(fnIn, CATALOG_A[i].aliases))})
    /\ \A k \in 1..Len(fnOut.assets) :
         \E i \in localHits(assetScores(fnIn)) :
           /\ placeOf(i, localHits(assetScores(fnIn)), relevanceOf(assetScores(fnIn), 50, 90)) = k
           /\ fnOut.assets[k].relevanceScore =
                SetMin({90, 50 + 3 * (assetScores(fnIn)[i]
                                      - repeatedBonus(fnIn, CATALOG_C[i].subjects))})

\* the name holds one of the countries the scorers know, at the start of a word
hasCountryQualifier(name) ==
  \E p \in 1..Len(name) :
    /\ ~isWordAt(name, p - 1)
    /\ \/ startsAt(toLowerCase(name), p, <<"a", "f", "g", "h", "a", "n", "i", "s", "t", "a", "n">>)
       \/ startsAt(toLowerCase(name), p, <<"b", "o", "s", "n", "i", "a">>)
       \/ startsAt(toLowerCase(name), p, <<"g", "h", "a", "n", "a">>)

\* a general topic: a name of at most three words without a country
generalTopicName(name) == splitLength(toLowerCase(name)) <= 3 /\ ~hasCountryQualifier(name)

\* the normalized name contains the normalized query, or is contained in it
nameMatches(query, name) ==
  \/ includes(normalize(name), normalize(query))
  \/ includes(normalize(query), normalize(name))

\* the topic boost that a general topic matching by name is due and that `score` lacks
missingBoost(query, name, boost) ==
  IF generalTopicName(name) /\ nameMatches(query, name) /\ isCountrySpecific(name)
    THEN boost ELSE 0

\* C28: a returned entry that is a general topic and matches the query by name has the
\* topic boost in its relevance, +20 for a guide and +15 for an asset; for the query
\* "Utah contract law" the guide "Contract Law" has relevanceScore >= 80
C28_GeneralTopicBoost ==
  fnDone =>
    /\ \A k \in 1..Len(fnOut.guides) :
         \E i \in localHits(guideScores(fnIn)) :
           /\ placeOf(i, localHits(guideScores(fnIn)), relevanceOf(guideScores(fnIn), 60, 98)) = k
           /\ fnOut.guides[k].relevanceScore =
                SetMin({98, 60 + 3 * (guideScores(fnIn)[i]
                                      + missingBoost(fnIn, CATALOG_A[i].name, 20))})
    /\ \A k \in 1..Len(fnOut.assets) :
         \E i \in localHits(assetScores(fnIn)) :
           /\ placeOf(i, localHits(assetScores(fnIn)), relevanceOf(assetScores(fnIn), 50, 90)) = k
           /\ fnOut.assets[k].relevanceScore =
                SetMin({90, 50 + 3 * (assetScores(fnIn)[i]
                                      + missingBoost(fnIn, CATALOG_C[i].name, 15))})
    /\ (fnIn = <<"U", "t", "a", "h", " ", "c", "o", "n", "t", "r", "a", "c", "t", " ", "l", "a", "w">>
         /\ \E i \in 1..Len(CATALOG_A) : CATALOG_A[i].name = <<"C", "o", "n", "t", "r", "a", "c", "t", " ", "L", "a", "w">>)
       => \E k \in 1..Len(fnOut.guides) :
            /\ fnOut.guides[k].name = <<"C", "o", "n", "t", "r", "a", "c", "t", " ", "L", "a", "w">>
            /\ fnOut.guides[k].relevanceScore >= 80

\* what the code does for the query "Utah contract law": the guide "Contract Law" is
\* returned with relevanceScore 98, the ceiling
UtahContractLawSurfaces ==
  (fnDone /\ fnIn = <<"U", "t", "a", "h", " ", "c", "o", "n", "t", "r", "a", "c", "t", " ", "l", "a", "w">>
     /\ \E i \in 1..Len(CATALOG_A) : CATALOG_A[i].name = <<"C", "o", "n", "t", "r", "a", "c", "t", " ", "L", "a", "w">>)
    => \E k \in 1..Len(fnOut.guides) :
         /\ fnOut.guides[k].name = <<"C", "o", "n", "t", "r", "a", "c", "t", " ", "L", "a", "w">>
         /\ fnOut.guides[k].relevanceScore = 98

\* variant is a country-specific variant of the general topic: it names a country and
\* holds the normalized name of the topic
isCountryVariantOf(variant, topic) ==
  /\ generalTopicName(topic) /\ hasCountryQualifier(variant)
  /\ includes(normalize(variant), normalize(topic))

\* in out, every country-specific variant that matches the query by name comes after each
\* general topic of the file that it is a variant of and that matches by name too, with a
\* strictly lower relevance
generalBeforeVariant(out, file, query) ==
  \A k \in 1..Len(out) :
    \A i \in 1..Len(file) :
      (/\ ~isFalsyName(file[i].name)
       /\ isCountryVariantOf(out[k].name, file[i].name)
       /\ nameMatches(query, out[k].name) /\ nameMatches(query, file[i].name))
      => \E l \in 1..(k - 1) :
           /\ out[l].name = file[i].name
           /\ out[l].relevanceScore > out[k].relevanceScore

\* C29: when a general topic and a country-specific variant of it both match the query by
\* name, the general one has the strictly higher relevanceScore and stands before the
\* variant, whatever their order in the file
C29_GeneralBeforeVariant ==
  fnDone =>
    /\ generalBeforeVariant(fnOut.guides, CATALOG_A, fnIn)
    /\ generalBeforeVariant(fnOut.assets, CATALOG_C, fnIn)

\* what a caller of checkRateLimit sees of its result
decisionOf(result) == [allowed |-> result.allowed, remaining |-> result.remaining]

\* C30: whatever calls, clock advances and cleanup runs came before, a request from any
\* address gets the same decision and the same remaining count as it gets when the cleanup
\* never runs
C30_CleanupInvisible ==
  \A ip \in RateIPs :
    decisionOf(checkRateLimit(ip)) = decisionOf(checkRateLimitIn(noCleanup, ip))

\* the cleanup has deleted the entry of an address that had used up its window, and no
\* call from that address has come since
C30_Witness ==
  \E e \in noCleanup :
    /\ e.count = MAX_REQUESTS_PER_WINDOW
    /\ \A f \in rateLimiter : f.ip # e.ip
====
